---------------------------- MODULE Spec2Model ----------------------------
(***************************************************************************)
(* A model of the ICU software compressor of plato-rdcu (icu_cmp.c):       *)
(* icu_compress_data = set_info ; icu_cmp_cfg_valid ; pre_process ;        *)
(* map_to_pos ; encode_data, over caller buffers held in memory.           *)
(*                                                                         *)
(* A 32-bit unsigned value (uint32_t / unsigned int) is the set of the     *)
(* positions of its one bits, position 0 being the least significant bit.  *)
(* Narrower fields (uint8_t, uint16_t) are the same sets restricted to     *)
(* their width.  Memory of the output buffer is a sequence of bytes, read  *)
(* and written as 32-bit words in the byte order of the host.              *)
(***************************************************************************)
EXTENDS Integers, Sequences, FiniteSets, TLC

\* ------------------------------------------------------------------------
\* Bounds of the model
\* ------------------------------------------------------------------------

\* largest number of samples of a compression call
MaxSamples == 2

\* ------------------------------------------------------------------------
\* 32-bit unsigned arithmetic (the C type unsigned int / uint32_t)
\* ------------------------------------------------------------------------

Bits32 == 0..31

RECURSIVE SumPow(_)
\* the number whose one bits are at the positions s (all below 31)
SumPow(s) == IF s = {} THEN 0
             ELSE LET i == CHOOSE j \in s : TRUE
                  IN  2^i + SumPow(s \ {i})

\* the value of a bit set that fits a non-negative int (bit 31 clear)
ToNat(a) == SumPow(a)

\* the bit set of a number 0 <= n < 2^31
FromNat(n) == {i \in 0..30 : (n \div 2^i) % 2 = 1}

\* low and high 16-bit halves of a 32-bit value, as numbers
Lo16(a) == SumPow({i \in a : i < 16})
Hi16(a) == SumPow({i - 16 : i \in {j \in a : j >= 16}})

FromHalves(hi, lo) == FromNat(lo) \cup {i + 16 : i \in FromNat(hi)}

AND32(a, b) == a \cap b
OR32(a, b)  == a \cup b
NOT32(a)    == Bits32 \ a
ALL32       == Bits32

\* a << k and a >> k on unsigned int, 0 <= k <= 31
SHL32(a, k) == {i + k : i \in {j \in a : j + k <= 31}}
SHR32(a, k) == {i - k : i \in {j \in a : j >= k}}

\* a + b modulo 2^32
ADD32(a, b) ==
    LET lo == Lo16(a) + Lo16(b)
        hi == Hi16(a) + Hi16(b) + (lo \div 65536)
    IN  FromHalves(hi % 65536, lo % 65536)

\* a - b modulo 2^32
SUB32(a, b) ==
    LET lo == 65536 + Lo16(a) - Lo16(b)
        hi == 65536 + Hi16(a) - Hi16(b) - (IF lo < 65536 THEN 1 ELSE 0)
    IN  FromHalves(hi % 65536, lo % 65536)

\* a * k modulo 2^32 for a small factor 0 <= k <= 32767
MUL32(a, k) ==
    LET lo == Lo16(a) * k
        hi == Hi16(a) * k + (lo \div 65536)
    IN  FromHalves(hi % 65536, lo % 65536)

\* unsigned comparison a < b
LT32(a, b) == \/ Hi16(a) < Hi16(b)
              \/ Hi16(a) = Hi16(b) /\ Lo16(a) < Lo16(b)

LE32(a, b) == a = b \/ LT32(a, b)

\* the value truncated to a field of w bits: (uint8_t)x, (uint16_t)x
Trunc(a, w) == {i \in a : i < w}

ZERO32 == {}
ONE32  == {0}

\* ------------------------------------------------------------------------
\* cmp_support.h: parameter ranges, error bits, compression modes
\* (the header is not among the source files; values follow the spec's
\* data model and section 6)
\* ------------------------------------------------------------------------

UINT8_MAX == 255

MAX_MODEL_VALUE    == 16
MIN_ICU_GOLOMB_PAR == 1
MAX_ICU_GOLOMB_PAR == 65535
MIN_ICU_SPILL      == 2
MAX_ICU_ROUND      == 3

\* fixed Golomb parameter of the exposure flags field
GOLOMB_PAR_EXPOSURE_FLAGS == 1

\* bit numbers of info->cmp_err
SMALL_BUFFER_ERR_BIT == 0
CMP_MODE_ERR_BIT     == 1
MODEL_VALUE_ERR_BIT  == 2
CMP_PAR_ERR_BIT      == 3

MODE_RAW         == 0
MODE_MODEL_ZERO  == 1
MODE_DIFF_ZERO   == 2
MODE_MODEL_MULTI == 3
MODE_DIFF_MULTI  == 4

MODE_RAW_S_FX         == 100
MODE_MODEL_ZERO_S_FX  == 101
MODE_DIFF_ZERO_S_FX   == 102
MODE_MODEL_MULTI_S_FX == 103
MODE_DIFF_MULTI_S_FX  == 104

MODE_MODEL_ZERO_S_FX_EFX  == 110
MODE_DIFF_ZERO_S_FX_EFX   == 111
MODE_MODEL_MULTI_S_FX_EFX == 112
MODE_DIFF_MULTI_S_FX_EFX  == 113

MODE_MODEL_ZERO_S_FX_NCOB  == 120
MODE_DIFF_ZERO_S_FX_NCOB   == 121
MODE_MODEL_MULTI_S_FX_NCOB == 122
MODE_DIFF_MULTI_S_FX_NCOB  == 123

MODE_MODEL_ZERO_S_FX_EFX_NCOB_ECOB  == 130
MODE_DIFF_ZERO_S_FX_EFX_NCOB_ECOB   == 131
MODE_MODEL_MULTI_S_FX_EFX_NCOB_ECOB == 132
MODE_DIFF_MULTI_S_FX_EFX_NCOB_ECOB  == 133

MODE_MODEL_ZERO_F_FX  == 140
MODE_DIFF_ZERO_F_FX   == 141
MODE_MODEL_MULTI_F_FX == 142
MODE_DIFF_MULTI_F_FX  == 143

MODE_MODEL_ZERO_32  == 200
MODE_DIFF_ZERO_32   == 201
MODE_MODEL_MULTI_32 == 202
MODE_DIFF_MULTI_32  == 203

ModelZeroModes ==
    {MODE_MODEL_ZERO, MODE_MODEL_ZERO_S_FX, MODE_MODEL_ZERO_S_FX_EFX,
     MODE_MODEL_ZERO_S_FX_NCOB, MODE_MODEL_ZERO_S_FX_EFX_NCOB_ECOB,
     MODE_MODEL_ZERO_F_FX, MODE_MODEL_ZERO_32}

ModelMultiModes ==
    {MODE_MODEL_MULTI, MODE_MODEL_MULTI_S_FX, MODE_MODEL_MULTI_S_FX_EFX,
     MODE_MODEL_MULTI_S_FX_NCOB, MODE_MODEL_MULTI_S_FX_EFX_NCOB_ECOB,
     MODE_MODEL_MULTI_F_FX, MODE_MODEL_MULTI_32}

DiffZeroModes ==
    {MODE_DIFF_ZERO, MODE_DIFF_ZERO_S_FX, MODE_DIFF_ZERO_S_FX_EFX,
     MODE_DIFF_ZERO_S_FX_NCOB, MODE_DIFF_ZERO_S_FX_EFX_NCOB_ECOB,
     MODE_DIFF_ZERO_F_FX, MODE_DIFF_ZERO_32}

DiffMultiModes ==
    {MODE_DIFF_MULTI, MODE_DIFF_MULTI_S_FX, MODE_DIFF_MULTI_S_FX_EFX,
     MODE_DIFF_MULTI_S_FX_NCOB, MODE_DIFF_MULTI_S_FX_EFX_NCOB_ECOB,
     MODE_DIFF_MULTI_F_FX, MODE_DIFF_MULTI_32}

RawModes == {MODE_RAW, MODE_RAW_S_FX}

\* the closed mode enum of the spec, section 6
AllModes == RawModes \cup ModelZeroModes \cup ModelMultiModes
            \cup DiffZeroModes \cup DiffMultiModes

model_mode_is_used(cmp_mode) == cmp_mode \in ModelZeroModes \cup ModelMultiModes
diff_mode_is_used(cmp_mode)  == cmp_mode \in DiffZeroModes \cup DiffMultiModes
raw_mode_is_used(cmp_mode)   == cmp_mode \in RawModes

zero_escape_mech_is_used(cmp_mode) ==
    cmp_mode \in ModelZeroModes \cup DiffZeroModes
multi_escape_mech_is_used(cmp_mode) ==
    cmp_mode \in ModelMultiModes \cup DiffMultiModes

\* ------------------------------------------------------------------------
\* Sample shapes (spec, section 3): the widths of the fields of a sample in
\* the order of the structure, field 1 of a structured shape being the
\* exposure flags
\* ------------------------------------------------------------------------

ShapeOf(cmp_mode) ==
    CASE cmp_mode \in {MODE_RAW, MODE_MODEL_ZERO, MODE_DIFF_ZERO,
                       MODE_MODEL_MULTI, MODE_DIFF_MULTI} -> "U16"
      [] cmp_mode \in {MODE_RAW_S_FX, MODE_MODEL_ZERO_S_FX, MODE_DIFF_ZERO_S_FX,
                       MODE_MODEL_MULTI_S_FX, MODE_DIFF_MULTI_S_FX} -> "S_FX"
      [] cmp_mode \in {MODE_MODEL_ZERO_S_FX_EFX, MODE_DIFF_ZERO_S_FX_EFX,
                       MODE_MODEL_MULTI_S_FX_EFX, MODE_DIFF_MULTI_S_FX_EFX}
            -> "S_FX_EFX"
      [] cmp_mode \in {MODE_MODEL_ZERO_S_FX_NCOB, MODE_DIFF_ZERO_S_FX_NCOB,
                       MODE_MODEL_MULTI_S_FX_NCOB, MODE_DIFF_MULTI_S_FX_NCOB}
            -> "S_FX_NCOB"
      [] cmp_mode \in {MODE_MODEL_ZERO_S_FX_EFX_NCOB_ECOB,
                       MODE_DIFF_ZERO_S_FX_EFX_NCOB_ECOB,
                       MODE_MODEL_MULTI_S_FX_EFX_NCOB_ECOB,
                       MODE_DIFF_MULTI_S_FX_EFX_NCOB_ECOB}
            -> "S_FX_EFX_NCOB_ECOB"
      [] cmp_mode \in {MODE_MODEL_ZERO_F_FX, MODE_DIFF_ZERO_F_FX,
                       MODE_MODEL_MULTI_F_FX, MODE_DIFF_MULTI_F_FX} -> "F_FX"
      [] cmp_mode \in {MODE_MODEL_ZERO_32, MODE_DIFF_ZERO_32,
                       MODE_MODEL_MULTI_32, MODE_DIFF_MULTI_32} -> "U32"
      [] OTHER -> "NONE"

FieldWidths(shape) ==
    CASE shape = "U16"  -> <<16>>
      [] shape = "U32"  -> <<32>>
      [] shape = "F_FX" -> <<32>>
      [] shape = "S_FX" -> <<8, 32>>
      [] shape = "S_FX_EFX"  -> <<8, 32, 32>>
      [] shape = "S_FX_NCOB" -> <<8, 32, 32, 32>>
      [] shape = "S_FX_EFX_NCOB_ECOB" -> <<8, 32, 32, 32, 32, 32, 32>>
      [] OTHER -> << >>

RECURSIVE SeqSum(_)
SeqSum(s) == IF s = << >> THEN 0 ELSE Head(s) + SeqSum(Tail(s))

\* sizeof of one sample in bytes (the structures are packed)
size_of_a_sample(cmp_mode) == SeqSum(FieldWidths(ShapeOf(cmp_mode))) \div 8

\* ------------------------------------------------------------------------
\* cmp_support.c helpers
\* ------------------------------------------------------------------------

\* floor(log2(x)), and -1 for x = 0
ilog_2(x) ==
    IF x = 0 THEN -1
    ELSE CHOOSE k \in 0..30 : 2^k <= x /\ (k = 30 \/ x < 2^(k+1))

is_a_pow_of_2(v) == \E k \in 0..30 : v = 2^k

\* the largest spill for which the escape symbols of the multi escape
\* mechanism (spill .. spill + 15) still have code words of at most 32 bits
get_max_spill(golomb_par, cmp_mode) ==
    IF golomb_par = 0 THEN 0
    ELSE LET log2 == ilog_2(golomb_par)
             cutoff == 2^(log2 + 1) - golomb_par
         IN  (31 - log2) * golomb_par + cutoff - 15 - 1

\* lossy rounding of a field value and its inverse; the result is an
\* unsigned int
round_fwd(value, round) == SHR32(value, round)
round_inv(value, round) == SHL32(value, round)

\* the weighted blend of the observation and the prior model, in unsigned
\* int arithmetic
cal_up_model(data, model, model_value) ==
    SHR32(ADD32(MUL32(model, model_value),
                MUL32(data, MAX_MODEL_VALUE - model_value)), 4)

\* ------------------------------------------------------------------------
\* Caller buffers.  A buffer pointer is "NULL" or the name of a buffer; two
\* pointers alias exactly when they are equal.  mem maps each buffer name to
\* its content: a sequence of samples for the data and model buffers (a
\* sample is the sequence of its field values), a sequence of bytes for the
\* output buffer.
\* ------------------------------------------------------------------------

NULL == "NULL"

\* per-field operations of cmp_data_types.c on one sample
lossy_rounding_sample(s, round, widths) ==
    [f \in 1..Len(s) |-> Trunc(round_fwd(s[f], round), widths[f])]

de_lossy_rounding_sample(s, round, widths) ==
    [f \in 1..Len(s) |-> Trunc(round_inv(s[f], round), widths[f])]

\* sub_S_FX, sub_S_FX_EFX, ...: field-wise difference, wrapping in the
\* width of the field
sub_sample(a, b, widths) ==
    [f \in 1..Len(a) |-> Trunc(SUB32(a[f], b[f]), widths[f])]

\* cal_up_model_S_FX: field-wise blend, stored in the width of the field
cal_up_model_sample(data, model, model_value, widths) ==
    [f \in 1..Len(data) |->
        Trunc(cal_up_model(data[f], model[f], model_value), widths[f])]

\* lossy_rounding_16 / _32 / _S_FX ...: round every sample of the buffer
lossy_rounding(data, samples, round, widths) ==
    [i \in 1..Len(data) |->
        IF i <= samples THEN lossy_rounding_sample(data[i], round, widths)
        ELSE data[i]]

\* data[i] = data[i] - data[i-1] for one index i
diff_step(data, i, widths) ==
    [data EXCEPT ![i + 1] = sub_sample(data[i + 1], data[i], widths)]

RECURSIVE diff_loop_head_to_tail(_, _, _)
\* the same loop from index 1 up to index i
diff_loop_head_to_tail(data, i, widths) ==
    IF i > 0
    THEN diff_step(diff_loop_head_to_tail(data, i - 1, widths), i, widths)
    ELSE data

RECURSIVE diff_loop(_, _, _)
\* for (i = samples - 1; i > 0; i--) data[i] = data[i] - data[i-1];
\* i is the C index; data[i] is element i + 1 of the sequence
diff_loop(data, i, widths) ==
    IF i > 0
    THEN diff_loop([data EXCEPT ![i + 1] =
                        sub_sample(data[i + 1], data[i], widths)],
                   i - 1, widths)
    ELSE data

\* the common body of diff_16, diff_32, diff_S_FX, ...
diff_buf(mem, data_buf, samples, round, widths) ==
    IF samples = 0 THEN [ret |-> 0, mem |-> mem]
    ELSE IF data_buf = NULL THEN [ret |-> -1, mem |-> mem]
    ELSE LET rounded == lossy_rounding(mem[data_buf], samples, round, widths)
         IN  [ret |-> 0,
              mem |-> [mem EXCEPT ![data_buf] =
                          diff_loop(rounded, samples - 1, widths)]]

diff_16(mem, data_buf, samples, round) ==
    diff_buf(mem, data_buf, samples, round, FieldWidths("U16"))

diff_32(mem, data_buf, samples, round) ==
    diff_buf(mem, data_buf, samples, round, FieldWidths("U32"))

diff_S_FX(mem, data, samples, round) ==
    diff_buf(mem, data, samples, round, FieldWidths("S_FX"))

diff_S_FX_EFX(mem, data, samples, round) ==
    diff_buf(mem, data, samples, round, FieldWidths("S_FX_EFX"))

diff_S_FX_NCOB(mem, data, samples, round) ==
    diff_buf(mem, data, samples, round, FieldWidths("S_FX_NCOB"))

diff_S_FX_EFX_NCOB_ECOB(mem, data, samples, round) ==
    diff_buf(mem, data, samples, round, FieldWidths("S_FX_EFX_NCOB_ECOB"))

RECURSIVE model_16_loop(_, _, _, _, _, _, _, _)
\* for (i = 0; i < samples; i++) { ... } of model_16, i the C index
model_16_loop(mem, data_buf, model_buf, up_model_buf, i, samples, model_value, round) ==
    IF i < samples
    THEN LET round_input == Trunc(round_fwd(mem[data_buf][i + 1][1], round), 16)
             round_model == Trunc(round_fwd(mem[model_buf][i + 1][1], round), 16)
             m1 == [mem EXCEPT ![data_buf][i + 1] =
                        <<Trunc(SUB32(round_input, round_model), 16)>>]
             m2 == [m1 EXCEPT ![up_model_buf][i + 1] =
                        <<Trunc(cal_up_model(round_inv(round_input, round),
                                             m1[model_buf][i + 1][1],
                                             model_value), 16)>>]
         IN  model_16_loop(m2, data_buf, model_buf, up_model_buf, i + 1,
                           samples, model_value, round)
    ELSE mem

model_16(mem, data_buf, model_buf, up_model_buf, samples, model_value, round) ==
    IF samples = 0 THEN [ret |-> 0, mem |-> mem]
    ELSE IF data_buf = NULL THEN [ret |-> -1, mem |-> mem]
    ELSE IF model_buf = NULL THEN [ret |-> -1, mem |-> mem]
    ELSE IF model_value > MAX_MODEL_VALUE THEN [ret |-> -1, mem |-> mem]
    ELSE LET up == IF up_model_buf = NULL THEN model_buf ELSE up_model_buf
         IN  [ret |-> 0,
              mem |-> model_16_loop(mem, data_buf, model_buf, up, 0, samples,
                                    model_value, round)]

RECURSIVE model_32_loop(_, _, _, _, _, _, _)
\* the loop of model_32: the updated model is stored in model_buf itself
model_32_loop(mem, data_buf, model_buf, i, samples, model_value, round) ==
    IF i < samples
    THEN LET round_input == round_fwd(mem[data_buf][i + 1][1], round)
             round_model == round_fwd(mem[model_buf][i + 1][1], round)
             m1 == [mem EXCEPT ![data_buf][i + 1] =
                        <<SUB32(round_input, round_model)>>]
             m2 == [m1 EXCEPT ![model_buf][i + 1] =
                        <<cal_up_model(round_inv(round_input, round),
                                       m1[model_buf][i + 1][1], model_value)>>]
         IN  model_32_loop(m2, data_buf, model_buf, i + 1, samples,
                           model_value, round)
    ELSE mem

model_32(mem, data_buf, model_buf, samples, model_value, round) ==
    IF samples = 0 THEN [ret |-> 0, mem |-> mem]
    ELSE IF data_buf = NULL THEN [ret |-> -1, mem |-> mem]
    ELSE IF model_buf = NULL THEN [ret |-> -1, mem |-> mem]
    ELSE IF model_value > MAX_MODEL_VALUE THEN [ret |-> -1, mem |-> mem]
    ELSE [ret |-> 0,
          mem |-> model_32_loop(mem, data_buf, model_buf, 0, samples,
                                model_value, round)]

RECURSIVE model_S_FX_loop(_, _, _, _, _, _, _, _)
\* the loop of model_S_FX
model_S_FX_loop(mem, data_buf, model_buf, up_model_buf, i, samples, model_value, round) ==
    IF i < samples
    THEN LET w == FieldWidths("S_FX")
             round_data  == lossy_rounding_sample(mem[data_buf][i + 1], round, w)
             round_model == lossy_rounding_sample(mem[model_buf][i + 1], round, w)
             m1 == [mem EXCEPT ![data_buf][i + 1] =
                        sub_sample(round_data, round_model, w)]
             back == de_lossy_rounding_sample(round_data, round, w)
             m2 == [m1 EXCEPT ![up_model_buf][i + 1] =
                        cal_up_model_sample(back, m1[model_buf][i + 1],
                                            model_value, w)]
         IN  model_S_FX_loop(m2, data_buf, model_buf, up_model_buf, i + 1,
                             samples, model_value, round)
    ELSE mem

model_S_FX(mem, data_buf, model_buf, up_model_buf, samples, model_value, round) ==
    IF samples = 0 THEN [ret |-> 0, mem |-> mem]
    ELSE IF data_buf = NULL THEN [ret |-> -1, mem |-> mem]
    ELSE IF model_buf = NULL THEN [ret |-> -1, mem |-> mem]
    ELSE IF model_value > MAX_MODEL_VALUE THEN [ret |-> -1, mem |-> mem]
    ELSE LET up == IF up_model_buf = NULL THEN model_buf ELSE up_model_buf
         IN  [ret |-> 0,
              mem |-> model_S_FX_loop(mem, data_buf, model_buf, up, 0, samples,
                                      model_value, round)]

\* the stage selected by the mode; a mode without a case ends in the
\* default ("Compression mode not supported") and returns -1
pre_process(cfg, mem) ==
    IF cfg.samples = 0 THEN [ret |-> 0, mem |-> mem]
    ELSE IF cfg.input_buf = NULL THEN [ret |-> -1, mem |-> mem]
    ELSE CASE cfg.cmp_mode \in {MODE_RAW, MODE_RAW_S_FX} ->
                [ret |-> 0, mem |-> mem]
           [] cfg.cmp_mode \in {MODE_MODEL_ZERO, MODE_MODEL_MULTI} ->
                model_16(mem, cfg.input_buf, cfg.model_buf,
                         cfg.icu_new_model_buf, cfg.samples, cfg.model_value,
                         cfg.round)
           [] cfg.cmp_mode \in {MODE_DIFF_ZERO, MODE_DIFF_MULTI} ->
                diff_16(mem, cfg.input_buf, cfg.samples, cfg.round)
           [] cfg.cmp_mode \in {MODE_MODEL_ZERO_S_FX, MODE_MODEL_MULTI_S_FX} ->
                model_S_FX(mem, cfg.input_buf, cfg.model_buf,
                           cfg.icu_new_model_buf, cfg.samples, cfg.model_value,
                           cfg.round)
           [] cfg.cmp_mode \in {MODE_DIFF_ZERO_S_FX, MODE_DIFF_MULTI_S_FX} ->
                diff_S_FX(mem, cfg.input_buf, cfg.samples, cfg.round)
           [] cfg.cmp_mode \in {MODE_DIFF_ZERO_S_FX_EFX,
                                MODE_DIFF_MULTI_S_FX_EFX} ->
                diff_S_FX_EFX(mem, cfg.input_buf, cfg.samples, cfg.round)
           [] cfg.cmp_mode \in {MODE_DIFF_ZERO_S_FX_NCOB,
                                MODE_DIFF_MULTI_S_FX_NCOB} ->
                diff_S_FX_NCOB(mem, cfg.input_buf, cfg.samples, cfg.round)
           [] cfg.cmp_mode \in {MODE_DIFF_ZERO_S_FX_EFX_NCOB_ECOB,
                                MODE_DIFF_MULTI_S_FX_EFX_NCOB_ECOB} ->
                diff_S_FX_EFX_NCOB_ECOB(mem, cfg.input_buf, cfg.samples,
                                        cfg.round)
           [] cfg.cmp_mode \in {MODE_MODEL_ZERO_32, MODE_MODEL_MULTI_32,
                                MODE_MODEL_ZERO_F_FX, MODE_MODEL_MULTI_F_FX} ->
                model_32(mem, cfg.input_buf, cfg.model_buf, cfg.samples,
                         cfg.model_value, cfg.round)
           [] cfg.cmp_mode \in {MODE_DIFF_ZERO_32, MODE_DIFF_MULTI_32,
                                MODE_DIFF_ZERO_F_FX, MODE_DIFF_MULTI_F_FX} ->
                diff_32(mem, cfg.input_buf, cfg.samples, cfg.round)
           [] OTHER -> [ret |-> -1, mem |-> mem]

\* ------------------------------------------------------------------------
\* Mapper: signed residual -> unsigned
\* ------------------------------------------------------------------------

\* the number 0 <= n < 2^w of a field of w <= 16 bits read as intw_t
ToSigned(n, w) == IF n >= 2^(w - 1) THEN n - 2^w ELSE n

\* (uintw_t)v of an int v, w <= 16
ToUnsigned(v, w) == v % 2^w

\* map_to_pos_alg_8: the argument is converted to int8_t, the arithmetic is
\* done in int (no overflow), the result is converted to uint8_t
map_to_pos_alg_8(value_to_map) ==
    LET v == ToSigned(ToNat(value_to_map), 8)
    IN  IF v < 0 THEN FromNat(ToUnsigned((-v) * 2 - 1, 8))
        ELSE FromNat(ToUnsigned(v * 2, 8))

map_to_pos_alg_16(value_to_map) ==
    LET v == ToSigned(ToNat(value_to_map), 16)
    IN  IF v < 0 THEN FromNat(ToUnsigned((-v) * 2 - 1, 16))
        ELSE FromNat(ToUnsigned(v * 2, 16))

\* map_to_pos_alg_32 computes in int32_t: (-v) * 2 - 1 and v * 2 overflow
\* the signed type when |v| >= 2^30, which is undefined behaviour
map_to_pos_alg_32_overflows(value_to_map) ==
    IF 31 \in value_to_map
    THEN 30 \notin value_to_map \/ value_to_map = {30, 31}
    ELSE 30 \in value_to_map

\* the result of map_to_pos_alg_32 where the arithmetic is defined, and the
\* result of a build whose signed arithmetic wraps around elsewhere
map_to_pos_alg_32(value_to_map) ==
    IF 31 \in value_to_map
    THEN SUB32(SHL32(SUB32(ZERO32, value_to_map), 1), ONE32)
    ELSE SHL32(value_to_map, 1)

map_to_pos_alg(value_to_map, w) ==
    CASE w = 8  -> map_to_pos_alg_8(value_to_map)
      [] w = 16 -> map_to_pos_alg_16(value_to_map)
      [] w = 32 -> map_to_pos_alg_32(value_to_map)

\* the same with the increment on every field, the exposure flags included
map_sample_all_fields(s, zero_mode_used, widths) ==
    [f \in 1..Len(s) |->
        IF zero_mode_used
        THEN Trunc(ADD32(map_to_pos_alg(s[f], widths[f]), ONE32), widths[f])
        ELSE map_to_pos_alg(s[f], widths[f])]

\* one sample of the loops of map_to_pos_16 ... map_to_pos_S_FX_EFX_NCOB_ECOB:
\* every field is mapped; with zero_mode_used every field but the exposure
\* flags (the 8-bit field) is incremented in its width
map_sample(s, zero_mode_used, widths) ==
    [f \in 1..Len(s) |->
        LET m == map_to_pos_alg(s[f], widths[f])
        IN  IF zero_mode_used /\ widths[f] # 8
            THEN Trunc(ADD32(m, ONE32), widths[f])
            ELSE m]

\* some 32-bit field of the first samples overflows the signed arithmetic
map_overflows(data, samples, widths) ==
    \E i \in 1..samples : \E f \in 1..Len(widths) :
        widths[f] = 32 /\ map_to_pos_alg_32_overflows(data[i][f])

\* the common body of map_to_pos_16, map_to_pos_32, map_to_pos_S_FX, ...
\* ub is the behaviour of the build on signed overflow: "wrap" or "trap"
map_buf(mem, data_buf, samples, zero_mode_used, widths, ub) ==
    IF samples = 0 THEN [ret |-> 0, mem |-> mem, trap |-> FALSE]
    ELSE IF data_buf = NULL THEN [ret |-> -1, mem |-> mem, trap |-> FALSE]
    ELSE IF ub = "trap" /\ map_overflows(mem[data_buf], samples, widths)
         THEN [ret |-> 0, mem |-> mem, trap |-> TRUE]
    ELSE [ret |-> 0,
          mem |-> [mem EXCEPT ![data_buf] =
                      [i \in 1..Len(@) |->
                          IF i <= samples
                          THEN map_sample(@[i], zero_mode_used, widths)
                          ELSE @[i]]],
          trap |-> FALSE]

map_to_pos_16(mem, data_buf, samples, zero_mode_used, ub) ==
    map_buf(mem, data_buf, samples, zero_mode_used, FieldWidths("U16"), ub)

map_to_pos_32(mem, data_buf, samples, zero_mode_used, ub) ==
    map_buf(mem, data_buf, samples, zero_mode_used, FieldWidths("U32"), ub)

map_to_pos_S_FX(mem, data_buf, samples, zero_mode_used, ub) ==
    map_buf(mem, data_buf, samples, zero_mode_used, FieldWidths("S_FX"), ub)

map_to_pos_S_FX_EFX(mem, data_buf, samples, zero_mode_used, ub) ==
    map_buf(mem, data_buf, samples, zero_mode_used, FieldWidths("S_FX_EFX"), ub)

map_to_pos_S_FX_NCOB(mem, data_buf, samples, zero_mode_used, ub) ==
    map_buf(mem, data_buf, samples, zero_mode_used, FieldWidths("S_FX_NCOB"), ub)

map_to_pos_S_FX_EFX_NCOB_ECOB(mem, data_buf, samples, zero_mode_used, ub) ==
    map_buf(mem, data_buf, samples, zero_mode_used, FieldWidths("S_FX_EFX_NCOB_ECOB"), ub)

NoMap(r, m) == [ret |-> r, mem |-> m, trap |-> FALSE]

map_to_pos(cfg, mem, ub) ==
    IF cfg.samples = 0 THEN NoMap(0, mem)
    ELSE IF cfg.input_buf = NULL THEN NoMap(-1, mem)
    ELSE LET zero_mode_used == zero_escape_mech_is_used(cfg.cmp_mode)
         IN CASE cfg.cmp_mode \in {MODE_RAW, MODE_RAW_S_FX} -> NoMap(0, mem)
              [] cfg.cmp_mode \in {MODE_MODEL_ZERO, MODE_MODEL_MULTI,
                                   MODE_DIFF_ZERO, MODE_DIFF_MULTI} ->
                   map_to_pos_16(mem, cfg.input_buf, cfg.samples,
                                 zero_mode_used, ub)
              [] cfg.cmp_mode \in {MODE_MODEL_ZERO_S_FX, MODE_MODEL_MULTI_S_FX,
                                   MODE_DIFF_ZERO_S_FX, MODE_DIFF_MULTI_S_FX} ->
                   map_to_pos_S_FX(mem, cfg.input_buf, cfg.samples,
                                   zero_mode_used, ub)
              [] cfg.cmp_mode \in {MODE_MODEL_ZERO_S_FX_EFX,
                                   MODE_MODEL_MULTI_S_FX_EFX,
                                   MODE_DIFF_ZERO_S_FX_EFX,
                                   MODE_DIFF_MULTI_S_FX_EFX} ->
                   map_to_pos_S_FX_EFX(mem, cfg.input_buf, cfg.samples,
                                       zero_mode_used, ub)
              [] cfg.cmp_mode \in {MODE_MODEL_ZERO_S_FX_NCOB,
                                   MODE_MODEL_MULTI_S_FX_NCOB,
                                   MODE_DIFF_ZERO_S_FX_NCOB,
                                   MODE_DIFF_MULTI_S_FX_NCOB} ->
                   map_to_pos_S_FX_NCOB(mem, cfg.input_buf, cfg.samples,
                                        zero_mode_used, ub)
              [] cfg.cmp_mode \in {MODE_MODEL_ZERO_S_FX_EFX_NCOB_ECOB,
                                   MODE_MODEL_MULTI_S_FX_EFX_NCOB_ECOB,
                                   MODE_DIFF_ZERO_S_FX_EFX_NCOB_ECOB,
                                   MODE_DIFF_MULTI_S_FX_EFX_NCOB_ECOB} ->
                   map_to_pos_S_FX_EFX_NCOB_ECOB(mem, cfg.input_buf,
                                                 cfg.samples, zero_mode_used, ub)
              [] cfg.cmp_mode \in {MODE_MODEL_ZERO_32, MODE_MODEL_MULTI_32,
                                   MODE_DIFF_ZERO_32, MODE_DIFF_MULTI_32,
                                   MODE_MODEL_ZERO_F_FX, MODE_MODEL_MULTI_F_FX,
                                   MODE_DIFF_ZERO_F_FX, MODE_DIFF_MULTI_F_FX} ->
                   map_to_pos_32(mem, cfg.input_buf, cfg.samples,
                                 zero_mode_used, ub)
              [] OTHER -> NoMap(-1, mem)

\* ------------------------------------------------------------------------
\* Output memory: bytes, accessed as 32-bit words in the byte order of the
\* host ("LE" or "BE")
\* ------------------------------------------------------------------------

\* byte k (0 = most significant) of a 32-bit value
ByteOf(val, k) == ToNat(Trunc(SHR32(val, 24 - 8 * k), 8))

\* the 32-bit value whose bytes, most significant first, are b0 b1 b2 b3
WordOf(b0, b1, b2, b3) ==
    OR32(OR32(SHL32(FromNat(b0), 24), SHL32(FromNat(b1), 16)),
         OR32(SHL32(FromNat(b2), 8), FromNat(b3)))

\* *(uint32_t *)(bytes + 4 * w)
ReadWord(bytes, w, host) ==
    IF host = "BE"
    THEN WordOf(bytes[4*w + 1], bytes[4*w + 2], bytes[4*w + 3], bytes[4*w + 4])
    ELSE WordOf(bytes[4*w + 4], bytes[4*w + 3], bytes[4*w + 2], bytes[4*w + 1])

\* *(uint32_t *)(bytes + 4 * w) = val
WriteWord(bytes, w, val, host) ==
    [k \in 1..Len(bytes) |->
        IF k \in (4*w + 1)..(4*w + 4)
        THEN IF host = "BE" THEN ByteOf(val, k - (4*w + 1))
             ELSE ByteOf(val, (4*w + 4) - k)
        ELSE bytes[k]]

\* cpu_to_be32s: on a little-endian host the four bytes of the word are
\* reversed in memory, on a big-endian host nothing happens
cpu_to_be32s(bytes, w, host) ==
    IF host = "LE"
    THEN [k \in 1..Len(bytes) |->
            IF k \in (4*w + 1)..(4*w + 4) THEN bytes[(8*w + 5) - k]
            ELSE bytes[k]]
    ELSE bytes

\* ------------------------------------------------------------------------
\* Bit packer
\* ------------------------------------------------------------------------

\* the small buffer sentinel -2U, as the callers see it in an int
SMALL_BUF == -2

\* the bits the destination buffer has room for
put_capacity(dest_len) == ((dest_len + 1) \div 2) * 2 * 16

\* *(localAddr) &= ~mask, and the same without the inversion of the mask
clear_bits_of_mask(word, mask) == AND32(word, mask)
clear_bits(word, mask) == AND32(word, NOT32(mask))

\* the words the write touches lie in the destination
put_in_dest(localAddr, localEndPos, dest) ==
    4 * (localAddr + (IF localEndPos <= 32 THEN 1 ELSE 2)) <= Len(dest)

\* bitOffset is a 32-bit value, and bitOffset + nBits is an unsigned sum; dest
\* holds the bytes of the destination, rounded up to whole 32-bit words.  oob
\* tells that the write went to words outside the destination (undefined)
put_n_bits32(value, bitOffset, nBits, dest, dest_len, host) ==
    IF LT32(FromNat(put_capacity(dest_len)), ADD32(bitOffset, FromNat(nBits)))
    THEN [ret |-> SMALL_BUF, dest |-> dest, oob |-> FALSE]
    ELSE IF nBits = 0 THEN [ret |-> 0, dest |-> dest, oob |-> FALSE]
    ELSE IF nBits > 32 THEN [ret |-> 0, dest |-> dest, oob |-> FALSE]
    ELSE
      LET localAddr   == ToNat(SHR32(bitOffset, 5))
          bitsLeft    == ToNat(Trunc(bitOffset, 5))
          shiftRight  == 32 - nBits
          mask        == SHR32(ALL32, shiftRight)
          val         == AND32(value, mask)
          localEndPos == bitsLeft + nBits
      IN  IF ~put_in_dest(localAddr, localEndPos, dest)
          THEN [ret |-> nBits, dest |-> dest, oob |-> TRUE]
          ELSE IF localEndPos <= 32
          THEN \* unsegmented
               LET shiftLeft == shiftRight - bitsLeft
                   m2  == SHL32(mask, shiftLeft)
                   w0  == ReadWord(dest, localAddr, host)
                   w1  == OR32(clear_bits(w0, m2), SHL32(val, 32 - localEndPos))
               IN  [ret |-> nBits, dest |-> WriteWord(dest, localAddr, w1, host),
                    oob |-> FALSE]
          ELSE \* segmented
               LET n2  == bitsLeft + nBits - 32
                   \* part 1
                   mk1 == SHR32(ALL32, bitsLeft)
                   a0  == ReadWord(dest, localAddr, host)
                   a1  == OR32(clear_bits(a0, mk1), SHR32(val, n2))
                   d1  == WriteWord(dest, localAddr, a1, host)
                   \* part 2
                   shiftLeft == 64 - bitsLeft - nBits
                   mk2 == SHL32(ALL32, shiftLeft)
                   b0  == ReadWord(d1, localAddr + 1, host)
                   b1  == OR32(clear_bits(b0, mk2), SHL32(val, 32 - n2))
               IN  [ret |-> nBits,
                    dest |-> WriteWord(d1, localAddr + 1, b1, host),
                    oob |-> FALSE]

\* ------------------------------------------------------------------------
\* Code words
\* ------------------------------------------------------------------------

\* 1U << g: for g >= 32 the shift is undefined; a build that does not trap
\* uses the count modulo 32
ShiftOne(g) == SHL32(ONE32, g % 32)

\* Rice_encoder without the 0 that ends the quotient code
Rice_encoder_no_stop_bit(value, m, log2_m) ==
    LET g  == value \div 2^log2_m
        q  == SUB32(ShiftOne(g), ONE32)
        r  == AND32(FromNat(value), FromNat(m - 1))
        rl == log2_m
    IN  [cw |-> OR32(SHL32(q, rl), r), len |-> rl + g, ub |-> g >= 32]

\* value is the number to encode (below 2^31), the result is the code word and
\* its length; ub tells whether a shift count of 32 or more was used
Rice_encoder(value, m, log2_m) ==
    LET g  == value \div 2^log2_m
        q  == SUB32(ShiftOne(g), ONE32)
        r  == AND32(FromNat(value), FromNat(m - 1))
        rl == log2_m + 1
    IN  [cw |-> OR32(SHL32(q, rl), r), len |-> rl + g, ub |-> g >= 32]

Golomb_encoder(value, m, log2_m) ==
    LET len0    == log2_m + 1
        cutoff0 == 2^(log2_m + 1) - m
        cutoff  == IF cutoff0 = 0 THEN m ELSE cutoff0
    IN  IF value < cutoff
        THEN [cw |-> FromNat(value), len |-> len0, ub |-> FALSE]
        ELSE LET b  == cutoff * 2
                 g  == (value - cutoff) \div m
                 lg == len0 + g
                 q  == SUB32(ShiftOne(g), ONE32)
             IN  [cw  |-> ADD32(SHL32(q, len0 + 1),
                                FromNat(b + (value - cutoff) - g * m)),
                  len |-> lg + 1,
                  ub  |-> g >= 32]

select_encoder(golomb_par) ==
    IF golomb_par = 0 THEN NULL
    ELSE IF is_a_pow_of_2(golomb_par) THEN "Rice_encoder"
    ELSE "Golomb_encoder"

\* enc->encoder(value, m, log2_m, &cw)
CallEncoder(encoder, value, m, log2_m) ==
    IF encoder = "Rice_encoder" THEN Rice_encoder(value, m, log2_m)
    ELSE Golomb_encoder(value, m, log2_m)

\* ------------------------------------------------------------------------
\* Entropy encoder.  enc is struct encoder_struct, out the bytes of
\* cfg->icu_output_buf.  Every routine returns its status err, the encoder
\* state, the output bytes, and ub: an undefined shift was evaluated.
\* ------------------------------------------------------------------------

EncRes(e, enc, out, ub) == [err |-> e, enc |-> enc, out |-> out, ub |-> ub]

\* err = put_n_bits32(...); if (err <= 0) return err;
\* enc->cmp_size += len; return 0;   with p what put_n_bits32 handed back
put_status(p, len, enc, ub) ==
    IF p.ret <= 0 THEN EncRes(p.ret, enc, p.dest, ub)
    ELSE EncRes(0, [enc EXCEPT !.cmp_size = @ + len], p.dest, ub)

\* the code word c is put behind the stream
encode_code_word(c, cfg, enc, out, host) ==
    put_status(put_n_bits32(c.cw, FromNat(enc.cmp_size), c.len, out,
                            cfg.buffer_length, host),
               c.len, enc, c.ub)

encode_normal(value_to_encode, cfg, enc, out, host) ==
    IF enc.encoder = NULL THEN EncRes(-1, enc, out, FALSE)
    ELSE encode_code_word(CallEncoder(enc.encoder, ToNat(value_to_encode),
                                      cfg.golomb_par, enc.log2_golomb_par),
                          cfg, enc, out, host)

\* the unencoded bits of an outlier are put behind the escape symbol; n is
\* what encode_normal handed back for the escape symbol, and its status is
\* not looked at
encode_unencoded(n, unencoded_data, unencoded_data_len, cfg, host) ==
    put_status(put_n_bits32(unencoded_data, FromNat(n.enc.cmp_size),
                            unencoded_data_len, n.out, cfg.buffer_length,
                            host),
               unencoded_data_len, n.enc, n.ub)

encode_outlier_zero(value_to_encode, max_bits, cfg, enc, out, host) ==
    IF max_bits > 32 THEN EncRes(-1, enc, out, FALSE)
    ELSE encode_unencoded(encode_normal(ZERO32, cfg, enc, out, host),
                          value_to_encode, max_bits, cfg, host)

cal_multi_offset(unencoded_data) ==
    CASE LE32(unencoded_data, FromNat(3))          -> 0
      [] LE32(unencoded_data, FromNat(15))         -> 1
      [] LE32(unencoded_data, FromNat(63))         -> 2
      [] LE32(unencoded_data, FromNat(255))        -> 3
      [] LE32(unencoded_data, FromNat(1023))       -> 4
      [] LE32(unencoded_data, FromNat(4095))       -> 5
      [] LE32(unencoded_data, FromNat(16383))      -> 6
      [] LE32(unencoded_data, FromNat(65535))      -> 7
      [] LE32(unencoded_data, FromNat(262143))     -> 8
      [] LE32(unencoded_data, FromNat(1048575))    -> 9
      [] LE32(unencoded_data, FromNat(4194303))    -> 10
      [] LE32(unencoded_data, FromNat(16777215))   -> 11
      [] LE32(unencoded_data, FromNat(67108863))   -> 12
      [] LE32(unencoded_data, FromNat(268435455))  -> 13
      [] LE32(unencoded_data, FromNat(1073741823)) -> 14
      [] OTHER -> 15

\* escape_sym = cfg->spill + escape_sym_offset is coded, then
\* unencoded_data follows in (escape_sym_offset + 1) * 2 bits
encode_multi_escape(unencoded_data, escape_sym_offset, cfg, enc, out, host) ==
    encode_unencoded(encode_normal(ADD32(FromNat(cfg.spill),
                                         FromNat(escape_sym_offset)),
                                   cfg, enc, out, host),
                     unencoded_data, (escape_sym_offset + 1) * 2, cfg, host)

encode_multi_data(unencoded_data, cfg, enc, out, host) ==
    encode_multi_escape(unencoded_data, cal_multi_offset(unencoded_data), cfg,
                        enc, out, host)

encode_outlier_multi(value_to_encode, cfg, enc, out, host) ==
    encode_multi_data(SUB32(value_to_encode, FromNat(cfg.spill)), cfg, enc, out,
                      host)

encode_outlier(value_to_encode, bit_len, cfg, enc, out, host) ==
    IF multi_escape_mech_is_used(cfg.cmp_mode)
    THEN encode_outlier_multi(value_to_encode, cfg, enc, out, host)
    ELSE IF zero_escape_mech_is_used(cfg.cmp_mode)
    THEN encode_outlier_zero(value_to_encode, bit_len, cfg, enc, out, host)
    ELSE EncRes(-1, enc, out, FALSE)

\* the outlier test without the zero of the zero escape mechanism
is_outlier_spill_only(value_to_encode, cfg) ==
    ~LT32(value_to_encode, FromNat(cfg.spill))

\* the outlier test of encode_value
is_outlier(value_to_encode, cfg) ==
    \/ ~LT32(value_to_encode, FromNat(cfg.spill))
    \/ zero_escape_mech_is_used(cfg.cmp_mode) /\ value_to_encode = ZERO32

encode_value(value_to_encode, bit_len, cfg, enc, out, host) ==
    IF is_outlier(value_to_encode, cfg)
    THEN encode_outlier(value_to_encode, bit_len, cfg, enc, out, host)
    ELSE encode_normal(value_to_encode, cfg, enc, out, host)

RECURSIVE encode_loop(_, _, _, _, _, _, _, _)
RECURSIVE encode_loop_next(_, _, _, _, _, _, _)

\* for (i = 0; i < cfg->samples; i++) { err = encode_value(field 1);
\* if (err) return err; err = encode_value(field 2); ... }: k counts the
\* fields encoded so far, over all samples
encode_loop(data, widths, k, cfg, enc, out, host, ub) ==
    IF k >= cfg.samples * Len(widths) THEN EncRes(0, enc, out, ub)
    ELSE encode_loop_next(encode_value(data[(k \div Len(widths)) + 1]
                                           [(k % Len(widths)) + 1],
                                       widths[(k % Len(widths)) + 1],
                                       cfg, enc, out, host),
                          data, widths, k, cfg, host, ub)

\* if (err) return err;   with r what encode_value handed back
encode_loop_next(r, data, widths, k, cfg, host, ub) ==
    IF r.err # 0 THEN EncRes(r.err, r.enc, r.out, ub \/ r.ub)
    ELSE encode_loop(data, widths, k + 1, cfg, r.enc, r.out, host, ub \/ r.ub)

encode_16(data_to_encode, mem, cfg, enc, out, host) ==
    IF cfg.samples = 0 THEN EncRes(0, enc, out, FALSE)
    ELSE IF data_to_encode = NULL THEN EncRes(-1, enc, out, FALSE)
    ELSE encode_loop(mem[data_to_encode], FieldWidths("U16"), 0, cfg, enc, out,
                     host, FALSE)

encode_32(mem, cfg, enc, out, host) ==
    IF cfg.samples = 0 THEN EncRes(0, enc, out, FALSE)
    ELSE encode_loop(mem[cfg.input_buf], FieldWidths("U32"), 0, cfg, enc, out,
                     host, FALSE)

RECURSIVE encode_S_FX_loop(_, _, _, _, _, _, _, _)
RECURSIVE encode_S_FX_flags_done(_, _, _, _, _, _, _, _)
RECURSIVE encode_S_FX_FX_done(_, _, _, _, _, _, _, _)

\* the loop of encode_S_FX: the exposure flags go through encode_normal with
\* the copies cfg_exp_flag / enc_exp_flag, FX through encode_value
encode_S_FX_loop(data, i, cfg, enc, enc_exp_flag, out, host, ub) ==
    IF i >= cfg.samples THEN EncRes(0, enc, out, ub)
    ELSE encode_S_FX_flags_done(
             encode_normal(data[i + 1][1],
                           [cfg EXCEPT !.golomb_par = GOLOMB_PAR_EXPOSURE_FLAGS],
                           enc_exp_flag, out, host),
             data, i, cfg, enc, enc_exp_flag, host, ub)

\* if (err) return err; enc->cmp_size = enc_exp_flag.cmp_size;
\* enc->log2_golomb_par = ilog_2(cfg->golomb_par); err = encode_value(FX)
encode_S_FX_flags_done(e, data, i, cfg, enc, enc_exp_flag, host, ub) ==
    IF e.err # 0 THEN EncRes(e.err, enc, e.out, ub \/ e.ub)
    ELSE encode_S_FX_FX_done(
             encode_value(data[i + 1][2], 32, cfg,
                          [enc EXCEPT !.cmp_size = e.enc.cmp_size,
                                      !.log2_golomb_par = ilog_2(cfg.golomb_par)],
                          e.out, host),
             data, i, cfg, e.enc, e.ub, host, ub)

\* if (err) return err; enc_exp_flag.cmp_size = enc->cmp_size;
encode_S_FX_FX_done(v, data, i, cfg, enc_exp_flag, e_ub, host, ub) ==
    IF v.err # 0 THEN EncRes(v.err, v.enc, v.out, ub \/ e_ub \/ v.ub)
    ELSE encode_S_FX_loop(data, i + 1, cfg, v.enc,
                          [enc_exp_flag EXCEPT !.cmp_size = v.enc.cmp_size],
                          v.out, host, ub \/ e_ub \/ v.ub)

encode_S_FX(mem, cfg, enc, out, host) ==
    IF cfg.samples = 0 THEN EncRes(0, enc, out, FALSE)
    ELSE encode_S_FX_loop(mem[cfg.input_buf], 0, cfg, enc,
                          [enc EXCEPT !.log2_golomb_par =
                                          ilog_2(GOLOMB_PAR_EXPOSURE_FLAGS)],
                          out, host, FALSE)

encode_S_FX_EFX(mem, cfg, enc, out, host) ==
    IF cfg.samples = 0 THEN EncRes(0, enc, out, FALSE)
    ELSE encode_loop(mem[cfg.input_buf], FieldWidths("S_FX_EFX"), 0, cfg, enc,
                     out, host, FALSE)

encode_S_FX_NCOB(mem, cfg, enc, out, host) ==
    IF cfg.samples = 0 THEN EncRes(0, enc, out, FALSE)
    ELSE encode_loop(mem[cfg.input_buf], FieldWidths("S_FX_NCOB"), 0, cfg, enc,
                     out, host, FALSE)

encode_S_FX_EFX_NCOB_ECOB(mem, cfg, enc, out, host) ==
    IF cfg.samples = 0 THEN EncRes(0, enc, out, FALSE)
    ELSE encode_loop(mem[cfg.input_buf], FieldWidths("S_FX_EFX_NCOB_ECOB"), 0,
                     cfg, enc, out, host, FALSE)

\* ------------------------------------------------------------------------
\* Raw modes: the samples are copied as they lie in memory
\* ------------------------------------------------------------------------

RECURSIVE FieldBytes(_, _, _)
\* the bytes of a w-bit field in the memory of the host
FieldBytes(v, w, host) ==
    IF w = 0 THEN << >>
    ELSE IF host = "BE"
    THEN FieldBytes(SHR32(v, 8), w - 8, host) \o <<ToNat(Trunc(v, 8))>>
    ELSE <<ToNat(Trunc(v, 8))>> \o FieldBytes(SHR32(v, 8), w - 8, host)

RECURSIVE SampleBytes(_, _, _)
\* the bytes of one (packed) sample structure
SampleBytes(s, widths, host) ==
    IF s = << >> THEN << >>
    ELSE FieldBytes(Head(s), Head(widths), host)
         \o SampleBytes(Tail(s), Tail(widths), host)

RECURSIVE BufferBytes(_, _, _, _)
\* the first n samples of a data buffer as bytes
BufferBytes(data, n, widths, host) ==
    IF n = 0 THEN << >>
    ELSE BufferBytes(data, n - 1, widths, host)
         \o SampleBytes(data[n], widths, host)

\* memcpy(dst, src, Len(src))
memcpy(dst, src) ==
    [k \in 1..Len(dst) |-> IF k <= Len(src) THEN src[k] ELSE dst[k]]

\* the bytes first .. first + n - 1 (counted from 0) in reverse order
SwapBytes(bytes, first, n) ==
    [k \in 1..Len(bytes) |->
        IF k \in (first + 1)..(first + n) THEN bytes[(2 * first + n + 1) - k]
        ELSE bytes[k]]

encode_raw(mem, cfg, enc, out, host) ==
    IF cfg.icu_output_buf = NULL THEN EncRes(-1, enc, out, FALSE)
    ELSE IF cfg.input_buf = NULL THEN EncRes(-1, enc, out, FALSE)
    ELSE LET cmp_size_in_bytes == cfg.samples * size_of_a_sample(cfg.cmp_mode)
             enc1 == [enc EXCEPT !.cmp_size = cmp_size_in_bytes * 8]
         IN  IF cmp_size_in_bytes > cfg.buffer_length * 2
             THEN EncRes(-1, enc1, out, FALSE)
             ELSE EncRes(0, enc1,
                         memcpy(out, BufferBytes(mem[cfg.input_buf], cfg.samples,
                                    FieldWidths(ShapeOf(cfg.cmp_mode)), host)),
                         FALSE)

RECURSIVE be16_loop(_, _, _)
\* for (i = 0; i < samples; i++) cpu_to_be16s(&p[i])
be16_loop(bytes, i, samples) ==
    IF i >= samples THEN bytes
    ELSE be16_loop(SwapBytes(bytes, 2 * i, 2), i + 1, samples)

\* if (err) return err; then the samples are swapped to big endian; r is
\* what encode_raw handed back
encode_raw_16_swap(r, cfg, host) ==
    IF r.err # 0 THEN r
    ELSE IF host = "LE"
    THEN EncRes(0, r.enc, be16_loop(r.out, 0, cfg.samples), FALSE)
    ELSE r

encode_raw_16(mem, cfg, enc, out, host) ==
    encode_raw_16_swap(encode_raw(mem, cfg, enc, out, host), cfg, host)

RECURSIVE be32_FX_loop(_, _, _)
\* for (i = 0; i < samples; i++) output_buf[i].FX = cpu_to_be32(output_buf[i].FX)
be32_FX_loop(bytes, i, samples) ==
    IF i >= samples THEN bytes
    ELSE be32_FX_loop(SwapBytes(bytes, 5 * i + 1, 4), i + 1, samples)

\* if (err) return err; then FX of every sample is swapped to big endian
encode_raw_S_FX_swap(r, cfg, host) ==
    IF r.err # 0 THEN r
    ELSE IF host = "LE"
    THEN EncRes(0, r.enc, be32_FX_loop(r.out, 0, cfg.samples), FALSE)
    ELSE r

encode_raw_S_FX(mem, cfg, enc, out, host) ==
    encode_raw_S_FX_swap(encode_raw(mem, cfg, enc, out, host), cfg, host)

\* ------------------------------------------------------------------------
\* encode_data
\* ------------------------------------------------------------------------

\* the modes the switch of encode_data has a case for
EncodedModes == AllModes

\* the switch over cfg->cmp_mode
encode_dispatch(mem, cfg, enc, out, host) ==
    CASE cfg.cmp_mode = MODE_RAW -> encode_raw_16(mem, cfg, enc, out, host)
      [] cfg.cmp_mode \in {MODE_MODEL_ZERO, MODE_MODEL_MULTI, MODE_DIFF_ZERO,
                           MODE_DIFF_MULTI} ->
           encode_16(cfg.input_buf, mem, cfg, enc, out, host)
      [] cfg.cmp_mode = MODE_RAW_S_FX -> encode_raw_S_FX(mem, cfg, enc, out, host)
      [] cfg.cmp_mode \in {MODE_MODEL_ZERO_S_FX, MODE_MODEL_MULTI_S_FX,
                           MODE_DIFF_ZERO_S_FX, MODE_DIFF_MULTI_S_FX} ->
           encode_S_FX(mem, cfg, enc, out, host)
      [] cfg.cmp_mode \in {MODE_MODEL_ZERO_S_FX_EFX, MODE_MODEL_MULTI_S_FX_EFX,
                           MODE_DIFF_ZERO_S_FX_EFX, MODE_DIFF_MULTI_S_FX_EFX} ->
           encode_S_FX_EFX(mem, cfg, enc, out, host)
      [] cfg.cmp_mode \in {MODE_MODEL_ZERO_S_FX_NCOB, MODE_MODEL_MULTI_S_FX_NCOB,
                           MODE_DIFF_ZERO_S_FX_NCOB, MODE_DIFF_MULTI_S_FX_NCOB} ->
           encode_S_FX_NCOB(mem, cfg, enc, out, host)
      [] cfg.cmp_mode \in {MODE_MODEL_ZERO_S_FX_EFX_NCOB_ECOB,
                           MODE_MODEL_MULTI_S_FX_EFX_NCOB_ECOB,
                           MODE_DIFF_ZERO_S_FX_EFX_NCOB_ECOB,
                           MODE_DIFF_MULTI_S_FX_EFX_NCOB_ECOB} ->
           encode_S_FX_EFX_NCOB_ECOB(mem, cfg, enc, out, host)
      [] cfg.cmp_mode \in {MODE_MODEL_ZERO_32, MODE_MODEL_MULTI_32,
                           MODE_DIFF_ZERO_32, MODE_DIFF_MULTI_32,
                           MODE_MODEL_ZERO_F_FX, MODE_MODEL_MULTI_F_FX,
                           MODE_DIFF_ZERO_F_FX, MODE_DIFF_MULTI_F_FX} ->
           encode_32(mem, cfg, enc, out, host)
      [] OTHER -> EncRes(-1, enc, out, FALSE)

RECURSIVE be32_loop(_, _, _, _)
\* for (i = 0; i < n; i++) cpu_to_be32s(&p[i])
be32_loop(bytes, i, n, host) ==
    IF i >= n THEN bytes
    ELSE be32_loop(cpu_to_be32s(bytes, i, host), i + 1, n, host)

\* what encode_data hands back: its return value, the info structure, the
\* output bytes, the status err of the mode's encode routine, ub (an
\* undefined shift was evaluated) and nullp (info was dereferenced although
\* it is NULL)
DataRes(r, info, out, e, nullp) ==
    [ret |-> r, info |-> info, out |-> out, err |-> e.err, ub |-> e.ub,
     nullp |-> nullp]

\* the padding left out: the bits behind the stream stay what they were
pad_bits_left_out(n_pad_bits, cfg, e, host) ==
    [ret |-> IF n_pad_bits < 32 THEN n_pad_bits ELSE 0, dest |-> e.out]

\* n_bits = put_n_bits32(0, enc.cmp_size, n_pad_bits, ...), and n_bits = 0
\* when nothing is to be padded
pad_bits(n_pad_bits, cfg, e, host) ==
    IF n_pad_bits < 32
    THEN put_n_bits32(ZERO32, FromNat(e.enc.cmp_size), n_pad_bits, e.out,
                      cfg.buffer_length, host)
    ELSE [ret |-> 0, dest |-> e.out]

\* the check of n_bits and the byte swap of the words of the bit stream; p
\* is what pad_bits handed back, info has cmp_size set already
encode_data_padded(p, n_pad_bits, info, info_given, e, host) ==
    IF n_pad_bits < 32 /\ p.ret <= 0
    THEN DataRes(-2,
                 IF info_given
                 THEN [info EXCEPT !.cmp_err = @ \cup {SMALL_BUFFER_ERR_BIT},
                                   !.cmp_size = 0]
                 ELSE info,
                 p.dest, e, FALSE)
    ELSE IF host = "LE"
    THEN IF ~info_given THEN DataRes(0, info, p.dest, e, TRUE)
         ELSE DataRes(0, info,
                      be32_loop(p.dest, 0, (info.cmp_size + p.ret) \div 32, host),
                      e, FALSE)
    ELSE DataRes(0, info, p.dest, e, FALSE)

\* the padding of the bit stream
encode_data_pad(n_pad_bits, cfg, info, info_given, e, host) ==
    encode_data_padded(pad_bits(n_pad_bits, cfg, e, host), n_pad_bits, info,
                       info_given, e, host)

\* the part of encode_data behind the switch; e is what the mode's encode
\* routine handed back
encode_data_status(e, cfg, info, info_given, host) ==
    IF e.err = -2
    THEN IF info_given
         THEN DataRes(-2, [info EXCEPT !.cmp_err = @ \cup {SMALL_BUFFER_ERR_BIT}],
                      e.out, e, FALSE)
         ELSE DataRes(-2, info, e.out, e, TRUE)
    ELSE IF ~raw_mode_is_used(cfg.cmp_mode) /\ e.enc.cmp_size # 0
    THEN encode_data_pad(32 - (e.enc.cmp_size % 32), cfg,
                         IF info_given
                         THEN [info EXCEPT !.cmp_size = e.enc.cmp_size]
                         ELSE info,
                         info_given, e, host)
    ELSE DataRes(0,
                 IF info_given THEN [info EXCEPT !.cmp_size = e.enc.cmp_size]
                 ELSE info,
                 e.out, e, FALSE)

\* struct encoder_struct enc, as encode_data sets it up
encoder_struct(cfg) ==
    [encoder |-> select_encoder(cfg.golomb_par),
     log2_golomb_par |-> ilog_2(cfg.golomb_par),
     cmp_size |-> 0]

encode_data(cfg, info, info_given, mem, host) ==
    IF cfg.cmp_mode \notin EncodedModes
    THEN DataRes(-1, info, mem[cfg.icu_output_buf],
                 EncRes(0, encoder_struct(cfg), mem[cfg.icu_output_buf], FALSE),
                 FALSE)
    ELSE encode_data_status(encode_dispatch(mem, cfg, encoder_struct(cfg),
                                            mem[cfg.icu_output_buf], host),
                            cfg, info, info_given, host)

\* ------------------------------------------------------------------------
\* set_info and icu_cmp_cfg_valid.  info is struct cmp_info, with cmp_err
\* the set of the numbers of its set bits; info_given tells whether the
\* caller passed an info pointer at all.
\* ------------------------------------------------------------------------

\* [ret, info] of set_info
set_info(cfg, info, info_given) ==
    IF cfg.cmp_mode > UINT8_MAX THEN [ret |-> -1, info |-> info]
    ELSE IF cfg.round > UINT8_MAX THEN [ret |-> -1, info |-> info]
    ELSE IF cfg.model_value > UINT8_MAX THEN [ret |-> -1, info |-> info]
    ELSE IF info_given
    THEN [ret |-> 0,
          info |-> [cmp_err |-> {},
                    cmp_mode_used |-> cfg.cmp_mode,
                    model_value_used |-> cfg.model_value,
                    round_used |-> cfg.round,
                    spill_used |-> cfg.spill,
                    golomb_par_used |-> cfg.golomb_par,
                    samples_used |-> cfg.samples,
                    cmp_size |-> 0]]
    ELSE [ret |-> 0, info |-> info]

\* 1 when the check fails (cfg_invalid++), 0 otherwise
Failed(check) == IF check THEN 1 ELSE 0

\* buffer_checks with a buffer_length of 0 counted as a failure even when
\* there are no samples
buffer_checks_zero_length(cfg) ==
      Failed(cfg.input_buf = NULL)
    + Failed(cfg.icu_output_buf = NULL)
    + Failed(cfg.buffer_length = 0)
    + Failed(cfg.icu_output_buf = cfg.input_buf)
    + Failed(model_mode_is_used(cfg.cmp_mode) /\ cfg.model_buf = NULL)
    + Failed(model_mode_is_used(cfg.cmp_mode) /\ cfg.model_buf = cfg.input_buf)
    + Failed(model_mode_is_used(cfg.cmp_mode)
             /\ cfg.model_buf = cfg.icu_output_buf)
    + Failed(model_mode_is_used(cfg.cmp_mode)
             /\ cfg.icu_new_model_buf = cfg.input_buf)
    + Failed(model_mode_is_used(cfg.cmp_mode)
             /\ cfg.icu_new_model_buf = cfg.icu_output_buf)
    + Failed(raw_mode_is_used(cfg.cmp_mode) /\ cfg.samples > cfg.buffer_length)

\* the checks on the buffers and the mode, up to the return of the raw modes
buffer_checks(cfg) ==
      Failed(cfg.input_buf = NULL)
    + Failed(cfg.icu_output_buf = NULL)
    + Failed(cfg.buffer_length = 0 /\ cfg.samples # 0)
    + Failed(cfg.icu_output_buf = cfg.input_buf)
    + Failed(model_mode_is_used(cfg.cmp_mode) /\ cfg.model_buf = NULL)
    + Failed(model_mode_is_used(cfg.cmp_mode) /\ cfg.model_buf = cfg.input_buf)
    + Failed(model_mode_is_used(cfg.cmp_mode)
             /\ cfg.model_buf = cfg.icu_output_buf)
    + Failed(model_mode_is_used(cfg.cmp_mode)
             /\ cfg.icu_new_model_buf = cfg.input_buf)
    + Failed(model_mode_is_used(cfg.cmp_mode)
             /\ cfg.icu_new_model_buf = cfg.icu_output_buf)
    + Failed(raw_mode_is_used(cfg.cmp_mode) /\ cfg.samples > cfg.buffer_length)

mode_unsupported(cfg) ==
    ~(diff_mode_is_used(cfg.cmp_mode) \/ model_mode_is_used(cfg.cmp_mode)
      \/ raw_mode_is_used(cfg.cmp_mode))

model_value_invalid(cfg) ==
    model_mode_is_used(cfg.cmp_mode) /\ cfg.model_value > MAX_MODEL_VALUE

golomb_par_invalid(cfg) ==
    cfg.golomb_par < MIN_ICU_GOLOMB_PAR \/ cfg.golomb_par > MAX_ICU_GOLOMB_PAR

spill_too_small(cfg) == cfg.spill < MIN_ICU_SPILL

spill_too_large(cfg) == cfg.spill > get_max_spill(cfg.golomb_par, cfg.cmp_mode)

round_invalid(cfg) == cfg.round > MAX_ICU_ROUND

\* parameter_checks leaving at the first check that fails
parameter_checks_first_only(cfg) ==
    Failed(\/ model_value_invalid(cfg)
           \/ golomb_par_invalid(cfg)
           \/ spill_too_small(cfg)
           \/ spill_too_large(cfg)
           \/ round_invalid(cfg))

\* the checks behind the return of the raw modes
parameter_checks(cfg) ==
      Failed(model_value_invalid(cfg))
    + Failed(golomb_par_invalid(cfg))
    + Failed(spill_too_small(cfg))
    + Failed(spill_too_large(cfg))
    + Failed(round_invalid(cfg))

\* the error bits the checks deposit in info->cmp_err
cfg_err_bits(cfg) ==
    (IF mode_unsupported(cfg) THEN {CMP_MODE_ERR_BIT} ELSE {})
    \cup (IF raw_mode_is_used(cfg.cmp_mode) THEN {}
          ELSE (IF model_value_invalid(cfg) THEN {MODEL_VALUE_ERR_BIT} ELSE {})
               \cup (IF golomb_par_invalid(cfg) \/ spill_too_small(cfg)
                        \/ spill_too_large(cfg)
                     THEN {CMP_PAR_ERR_BIT} ELSE {}))

\* [ret, info] of icu_cmp_cfg_valid
icu_cmp_cfg_valid(cfg, info, info_given) ==
    LET cfg_invalid == buffer_checks(cfg) + Failed(mode_unsupported(cfg))
                       + (IF raw_mode_is_used(cfg.cmp_mode) THEN 0
                          ELSE parameter_checks(cfg))
    IN  [ret  |-> -cfg_invalid,
         info |-> IF info_given
                  THEN [info EXCEPT !.cmp_err = cfg_err_bits(cfg)]
                  ELSE info]

\* ------------------------------------------------------------------------
\* icu_compress_data as a whole: the stages in their order, each one ending
\* the call when it fails.  The result is the return value, the buffers and
\* info after the call, and abort: the program did not survive the call (a
\* NULL info was dereferenced, or the build trapped on undefined arithmetic).
\* ------------------------------------------------------------------------

CallRes(r, mem, info, abort) ==
    [ret |-> r, mem |-> mem, info |-> info, abort |-> abort]

\* err = encode_data(cfg, info); if (err) return err; return 0;
\* with e what encode_data handed back
icu_compress_data_encoded(e, cfg, info, mem, ub) ==
    IF e.nullp \/ (e.ub /\ ub = "trap") THEN CallRes(0, mem, info, TRUE)
    ELSE CallRes(e.ret, [mem EXCEPT ![cfg.icu_output_buf] = e.out], e.info,
                 FALSE)

\* err = map_to_pos(cfg); if (err) return err;   with m what it handed back
icu_compress_data_mapped(m, cfg, info, info_given, host, ub) ==
    IF m.trap THEN CallRes(0, m.mem, info, TRUE)
    ELSE IF m.ret # 0 THEN CallRes(m.ret, m.mem, info, FALSE)
    ELSE icu_compress_data_encoded(
             encode_data(cfg, info, info_given, m.mem, host), cfg, info, m.mem,
             ub)

\* err = pre_process(cfg); if (err) return err;   with p what it handed back
icu_compress_data_pre_processed(p, cfg, info, info_given, host, ub) ==
    IF p.ret # 0 THEN CallRes(p.ret, p.mem, info, FALSE)
    ELSE icu_compress_data_mapped(map_to_pos(cfg, p.mem, ub), cfg, info,
                                  info_given, host, ub)

\* err = icu_cmp_cfg_valid(cfg, info); if (err) return err;
icu_compress_data_valid(v, cfg, info_given, mem, host, ub) ==
    IF v.ret # 0 THEN CallRes(v.ret, mem, v.info, FALSE)
    ELSE icu_compress_data_pre_processed(pre_process(cfg, mem), cfg, v.info,
                                         info_given, host, ub)

\* err = set_info(cfg, info); if (err) return err;
icu_compress_data_info_set(s, cfg, info_given, mem, host, ub) ==
    IF s.ret # 0 THEN CallRes(s.ret, mem, s.info, FALSE)
    ELSE icu_compress_data_valid(icu_cmp_cfg_valid(cfg, s.info, info_given),
                                 cfg, info_given, mem, host, ub)

icu_compress_data(cfg, info, info_given, mem, host, ub) ==
    icu_compress_data_info_set(set_info(cfg, info, info_given), cfg,
                               info_given, mem, host, ub)

\* ------------------------------------------------------------------------
\* The state machine: one call of icu_compress_data (or of icu_cmp_cfg_valid
\* on its own) by a caller that owns the buffers A (data), M (model),
\* U (updated model) and O (output).
\* ------------------------------------------------------------------------

VARIABLES
    cfg,        \* struct cmp_cfg of the call
    mem,        \* the content of the caller's buffers
    orig,       \* the content of the buffers before the call
    info,       \* struct cmp_info of the caller
    info_given, \* FALSE: the caller passes info == NULL
    host,       \* byte order of the host: "LE" or "BE"
    ub,         \* the build on undefined arithmetic: "wrap" or "trap"
    pc,         \* where the call stands
    last,       \* the last stage that ran
    enc_err,    \* the status of the mode's encode routine inside encode_data
    ret,        \* the value the call returned
    dec,        \* what the decoder reconstructed from the output
    args,       \* the arguments of a routine that is called on its own
    res         \* what that routine handed back

vars == <<cfg, mem, orig, info, info_given, host, ub, pc, last, enc_err, ret,
          dec, args, res>>

NoDec == [ok |-> FALSE, data |-> << >>]

\* no routine is called on its own
NoArgs == << >>

\* the call ends with return value r
Return(r) == pc' = "done" /\ ret' = r

\* err = set_info(cfg, info); if (err) return err;
SetInfo ==
    /\ pc = "call"
    /\ LET r == set_info(cfg, info, info_given)
       IN  /\ info' = r.info
           /\ IF r.ret # 0 THEN Return(r.ret)
              ELSE pc' = "valid" /\ ret' = ret
    /\ last' = "set_info"
    /\ UNCHANGED <<cfg, mem, orig, info_given, host, ub, enc_err, dec, args, res>>

\* CfgValid with pre_process run before the configuration is checked
CfgValid_after_pre_process ==
    /\ pc = "valid"
    /\ mem' = pre_process(cfg, mem).mem
    /\ LET r == icu_cmp_cfg_valid(cfg, info, info_given)
       IN  /\ info' = r.info
           /\ IF r.ret # 0 THEN Return(r.ret)
              ELSE pc' = "pre" /\ ret' = ret
    /\ last' = "icu_cmp_cfg_valid"
    /\ UNCHANGED <<cfg, orig, info_given, host, ub, enc_err, dec, args, res>>

\* err = icu_cmp_cfg_valid(cfg, info); if (err) return err;
CfgValid ==
    /\ pc = "valid"
    /\ LET r == icu_cmp_cfg_valid(cfg, info, info_given)
       IN  /\ info' = r.info
           /\ IF r.ret # 0 THEN Return(r.ret)
              ELSE pc' = "pre" /\ ret' = ret
    /\ last' = "icu_cmp_cfg_valid"
    /\ UNCHANGED <<cfg, mem, orig, info_given, host, ub, enc_err, dec, args, res>>

\* the caller calls icu_cmp_cfg_valid itself
CfgValidCall ==
    /\ pc = "call"
    /\ LET r == icu_cmp_cfg_valid(cfg, info, info_given)
       IN  info' = r.info /\ ret' = r.ret
    /\ pc' = "checked"
    /\ last' = "icu_cmp_cfg_valid"
    /\ UNCHANGED <<cfg, mem, orig, info_given, host, ub, enc_err, dec, args, res>>

\* err = pre_process(cfg); if (err) return err;
PreProcess ==
    /\ pc = "pre"
    /\ LET r == pre_process(cfg, mem)
       IN  /\ mem' = r.mem
           /\ IF r.ret # 0 THEN Return(r.ret)
              ELSE pc' = "map" /\ ret' = ret
    /\ last' = "pre_process"
    /\ UNCHANGED <<cfg, orig, info, info_given, host, ub, enc_err, dec, args, res>>

\* err = map_to_pos(cfg); if (err) return err;
\* a build that traps on signed overflow aborts the program
MapToPos ==
    /\ pc = "map"
    /\ LET r == map_to_pos(cfg, mem, ub)
       IN  /\ mem' = r.mem
           /\ IF r.trap THEN pc' = "abort" /\ ret' = ret
              ELSE IF r.ret # 0 THEN Return(r.ret)
              ELSE pc' = "enc" /\ ret' = ret
    /\ last' = "map_to_pos"
    /\ UNCHANGED <<cfg, orig, info, info_given, host, ub, enc_err, dec, args, res>>

\* err = encode_data(cfg, info); if (err) return err; return 0;
\* the program does not survive a dereferenced NULL info, nor, in a build
\* that traps on it, an undefined shift
EncodeDataReturns(r) ==
    /\ enc_err' = r.err
    /\ IF r.nullp \/ (r.ub /\ ub = "trap")
       THEN /\ pc' = "abort"
            /\ UNCHANGED <<mem, info, ret>>
       ELSE /\ mem' = [mem EXCEPT ![cfg.icu_output_buf] = r.out]
            /\ info' = r.info
            /\ Return(r.ret)

EncodeData ==
    /\ pc = "enc"
    /\ EncodeDataReturns(encode_data(cfg, info, info_given, mem, host))
    /\ last' = "encode_data"
    /\ UNCHANGED <<cfg, orig, info_given, host, ub, dec, args, res>>

\* ------------------------------------------------------------------------
\* Initial states
\* ------------------------------------------------------------------------

\* 0xFFFFFFFF, 0xFFFFFFFE and 0x80000000
U32_MAX  == Bits32
U32_EVEN == Bits32 \ {0}
INT32_MIN == {31}

\* the samples the data buffer is filled from, by shape
SamplesOf(shape) ==
    CASE shape = "U16" -> {<<FromNat(600)>>, <<FromNat(604)>>,
                           <<FromNat(32768)>>}
      [] shape \in {"U32", "F_FX"} -> {<<FromNat(3)>>, <<INT32_MIN>>, <<U32_MAX>>}
      [] shape = "S_FX" -> {<<FromNat(0), FromNat(5)>>,
                            <<FromNat(16), FromNat(5)>>,
                            <<FromNat(255), U32_EVEN>>}
      [] shape = "S_FX_EFX" -> {<<FromNat(0), FromNat(5), FromNat(7)>>,
                                <<FromNat(1), FromNat(3), U32_MAX>>}
      [] shape = "S_FX_NCOB" ->
            {<<FromNat(0), FromNat(5), FromNat(7), FromNat(9)>>,
             <<FromNat(1), FromNat(3), U32_MAX, FromNat(9)>>}
      [] shape = "S_FX_EFX_NCOB_ECOB" ->
            {<<FromNat(0), FromNat(5), FromNat(7), FromNat(9), FromNat(5),
               FromNat(6), FromNat(7)>>,
             <<FromNat(1), FromNat(3), U32_MAX, FromNat(9), FromNat(4),
               FromNat(6), FromNat(40)>>}
      [] OTHER -> {<<FromNat(1)>>}

\* the sample every element of the model buffer holds, by shape and choice
ModelSample(shape, k) ==
    [f \in 1..Len(FieldWidths(IF shape = "NONE" THEN "U16" ELSE shape)) |->
        IF shape = "U16" THEN FromNat(598 + 3 * k)
        ELSE IF f = 1 THEN FromNat(k) ELSE FromNat(2 + 2 * k)]

\* the element behind the last sample of a data or model buffer
GuardSample(shape) ==
    [f \in 1..Len(FieldWidths(IF shape = "NONE" THEN "U16" ELSE shape)) |->
        FromNat(77)]

\* the output buffer has buffer_length 16-bit words; words are written 32
\* bits at a time, so the memory behind an odd buffer_length is part of the
\* picture
OutBytes(buffer_length) == 4 * ((buffer_length + 1) \div 2)

MkCfg(mode, g, sp, mv, rnd, n, bl, inp, mb, nmb, outb) ==
    [cmp_mode |-> mode, golomb_par |-> g, spill |-> sp, model_value |-> mv,
     round |-> rnd, samples |-> n, buffer_length |-> bl, input_buf |-> inp,
     model_buf |-> mb, icu_new_model_buf |-> nmb, icu_output_buf |-> outb]

MkMem(shape, data, k, bl) ==
    [b \in {"A", "M", "U", "O"} |->
        CASE b = "A" -> data \o <<GuardSample(shape)>>
          [] b = "M" -> [i \in 1..Len(data) |-> ModelSample(shape, k)]
                        \o <<GuardSample(shape)>>
          [] b = "U" -> [i \in 1..(Len(data) + 1) |-> GuardSample(shape)]
          \* the output buffer holds 0xA1, 0xA2, ... before the call
          [] b = "O" -> [i \in 1..OutBytes(bl) |-> 160 + i]]

\* what the caller left in info from an earlier call
StaleInfo ==
    [cmp_err |-> {SMALL_BUFFER_ERR_BIT, CMP_PAR_ERR_BIT},
     cmp_mode_used |-> MODE_DIFF_ZERO, model_value_used |-> 0, round_used |-> 0,
     spill_used |-> 8, golomb_par_used |-> 4, samples_used |-> 9,
     cmp_size |-> 96]

ZeroInfo ==
    [cmp_err |-> {}, cmp_mode_used |-> 0, model_value_used |-> 0,
     round_used |-> 0, spill_used |-> 0, golomb_par_used |-> 0,
     samples_used |-> 0, cmp_size |-> 0]

\* the settings of the valid configurations: golomb_par, spill, model_value,
\* round and buffer_length, with the byte order of the host, the behaviour
\* of the build on undefined arithmetic, and whether info is passed
Setup(g, sp, mv, rnd, bl, h, u, ig) ==
    [g |-> g, sp |-> sp, mv |-> mv, rnd |-> rnd, bl |-> bl, host |-> h,
     ub |-> u, info_given |-> ig]

Setups ==
    {Setup(1, 8, 8, 0, 2, "LE", "wrap", TRUE),
     Setup(1, 8, 8, 0, 2, "BE", "wrap", TRUE),
     Setup(1, 8, 8, 0, 6, "BE", "trap", TRUE),
     Setup(4, 8, 16, 0, 6, "LE", "wrap", TRUE),
     Setup(4, 8, 16, 0, 6, "BE", "wrap", FALSE),
     Setup(4, 2, 0, 2, 1, "LE", "trap", FALSE),
     Setup(3, 5, 11, 1, 1, "BE", "wrap", TRUE),
     Setup(3, 5, 11, 1, 6, "LE", "wrap", TRUE),
     Setup(4, 8, 8, 0, 1, "BE", "wrap", TRUE)}

InitState(c, m, i, b) ==
    /\ cfg = c
    /\ mem = m
    /\ orig = m
    /\ info = i
    /\ info_given = b.info_given
    /\ host = b.host
    /\ ub = b.ub
    /\ pc = "call"
    /\ last = "none"
    /\ enc_err = 0
    /\ ret = 0
    /\ dec = NoDec
    /\ args = NoArgs
    /\ res = NoArgs

\* valid configurations of every mode, with up to MaxSamples samples; without
\* samples buffer_length may be 0
Init ==
    \E mode \in AllModes, s \in Setups, n \in 0..MaxSamples :
      \E data \in [1..n -> SamplesOf(ShapeOf(mode))],
         k \in IF model_mode_is_used(mode) THEN {0, 1} ELSE {0},
         bl \in IF n = 0 THEN {0, s.bl} ELSE {s.bl} :
        InitState(MkCfg(mode, s.g, s.sp, s.mv, s.rnd, n, bl, "A", "M",
                        IF k = 1 THEN "U" ELSE NULL, "O"),
                  MkMem(ShapeOf(mode), data, k, bl), StaleInfo, s)

\* ------------------------------------------------------------------------
\* Configurations of every kind, valid or not, on one sample at most
\* ------------------------------------------------------------------------

\* the modes tried: two raw modes, a differencing and two model modes, a
\* value outside the enum and a value that does not fit in the uint8_t of
\* info
CfgModes == {MODE_RAW, MODE_RAW_S_FX, MODE_DIFF_ZERO, MODE_MODEL_MULTI,
             MODE_MODEL_ZERO_S_FX, 250, 256}

\* golomb_par and spill: valid, golomb_par too small, spill too small,
\* spill too large, both wrong
CfgPars == {<<4, 8>>, <<0, 8>>, <<4, 1>>, <<4, 1000>>, <<0, 0>>}

\* model_value and round: valid, each too large, each beyond uint8_t
CfgModelRound == {<<8, 0>>, <<17, 0>>, <<256, 0>>, <<8, 4>>, <<8, 256>>,
                  <<17, 4>>}

\* input_buf, model_buf, icu_new_model_buf, icu_output_buf
CfgPointers ==
    {<<"A", "M", NULL, "O">>, <<"A", "M", "U", "O">>, <<"A", "M", "M", "O">>,
     <<NULL, "M", "U", "O">>, <<"A", NULL, "U", "O">>, <<"A", "M", "U", NULL>>,
     <<"A", "A", "U", "O">>, <<"A", "O", "U", "O">>, <<"A", "M", "A", "O">>,
     <<"A", "M", "O", "O">>, <<"A", "M", "U", "A">>, <<NULL, NULL, NULL, NULL>>}

\* samples and buffer_length
CfgSizes == {<<0, 0>>, <<0, 2>>, <<1, 0>>, <<1, 2>>}

\* the host, the build, whether info is passed, and what info holds
CfgCallers ==
    {[host |-> "LE", ub |-> "wrap", info_given |-> TRUE, info |-> StaleInfo],
     [host |-> "BE", ub |-> "trap", info_given |-> TRUE, info |-> ZeroInfo],
     [host |-> "BE", ub |-> "wrap", info_given |-> FALSE, info |-> StaleInfo]}

InitCfg ==
    \E mode \in CfgModes, par \in CfgPars, mr \in CfgModelRound,
       ptr \in CfgPointers, sz \in CfgSizes, b \in CfgCallers :
      \E data \in [1..sz[1] -> {CHOOSE x \in SamplesOf(ShapeOf(mode)) : TRUE}] :
        InitState(MkCfg(mode, par[1], par[2], mr[1], mr[2], sz[1], sz[2],
                        ptr[1], ptr[2], ptr[3], ptr[4]),
                  MkMem(ShapeOf(mode), data, 1, sz[2]), b.info, b)

\* ------------------------------------------------------------------------
\* The decompressor (decmp.c is not among the source files; it is the mirror
\* image of the compressor, spec sections 1 and 7: same codebook, mapping
\* and pre-processing semantics)
\* ------------------------------------------------------------------------

\* bit p of the stream, the most significant bit of the first byte being
\* bit 0
GetBit(bytes, p) == (bytes[(p \div 8) + 1] \div 2^(7 - (p % 8))) % 2

\* the n <= 32 bits from bit p on, as a value
GetBits(bytes, p, n) == {(n - 1) - j : j \in {i \in 0..(n - 1) : GetBit(bytes, p + i) = 1}}

\* the code word c stands at bit p of the stream
CodeWordAt(c, bytes, p, limit) ==
    /\ ~c.ub
    /\ c.len <= 32
    /\ p + c.len <= limit
    /\ GetBits(bytes, p, c.len) = c.cw

\* the values up to maxv whose code word stands at bit p of the stream
CodeWordsAt(bytes, p, limit, encoder, m, log2_m, maxv) ==
    {v \in 0..maxv :
        CodeWordAt(CallEncoder(encoder, v, m, log2_m), bytes, p, limit)}

DecRes(ok, val, pos) == [ok |-> ok, val |-> val, pos |-> pos]

\* the value v was read at bit p
decode_code_word(v, p, encoder, m, log2_m) ==
    DecRes(TRUE, FromNat(v), p + CallEncoder(encoder, v, m, log2_m).len)

\* one of the values vs whose code word stands at bit p is read
decode_one_of(vs, p, encoder, m, log2_m) ==
    IF vs = {} THEN DecRes(FALSE, ZERO32, p)
    ELSE decode_code_word(CHOOSE x \in vs : TRUE, p, encoder, m, log2_m)

\* reads one code word of a value in 0..maxv (a code word of 32 bits at
\* most belongs to a value below 32 * m)
decode_normal(bytes, p, limit, encoder, m, log2_m, maxv) ==
    IF encoder = NULL THEN DecRes(FALSE, ZERO32, p)
    ELSE decode_one_of(CodeWordsAt(bytes, p, limit, encoder, m, log2_m,
                                   IF maxv < 32 * m THEN maxv ELSE 32 * m),
                       p, encoder, m, log2_m)

\* reads n raw bits
decode_raw_bits(bytes, p, limit, n) ==
    IF p + n > limit THEN DecRes(FALSE, ZERO32, p)
    ELSE DecRes(TRUE, GetBits(bytes, p, n), p + n)

\* zero escape mechanism: behind the escape symbol 0 the value stands in
\* bit_len raw bits; n is the code word read
decode_zero_escape(n, bytes, limit, bit_len) ==
    IF n.ok /\ n.val = ZERO32
    THEN decode_raw_bits(bytes, n.pos, limit, bit_len)
    ELSE n

\* the raw bits r behind a multi escape symbol stand for r + spill
decode_multi_data(r, c) == DecRes(r.ok, ADD32(r.val, FromNat(c.spill)), r.pos)

\* multi escape mechanism: the escape symbol spill + off is followed by
\* (off + 1) * 2 raw bits; n is the code word read
decode_multi_escape(n, bytes, limit, c) ==
    IF n.ok /\ ~LT32(n.val, FromNat(c.spill))
    THEN decode_multi_data(decode_raw_bits(bytes, n.pos, limit,
                               ((ToNat(n.val) - c.spill) + 1) * 2),
                           c)
    ELSE n

\* reads one value written by encode_value: a code word below spill, or
\* the escape symbol and the raw bits behind it
decode_value(bytes, p, limit, bit_len, c) ==
    IF zero_escape_mech_is_used(c.cmp_mode)
    THEN decode_zero_escape(
             decode_normal(bytes, p, limit, select_encoder(c.golomb_par),
                           c.golomb_par, ilog_2(c.golomb_par), c.spill - 1),
             bytes, limit, bit_len)
    ELSE decode_multi_escape(
             decode_normal(bytes, p, limit, select_encoder(c.golomb_par),
                           c.golomb_par, ilog_2(c.golomb_par), c.spill + 15),
             bytes, limit, c)

\* the exposure flags of the S_FX shape are coded with
\* GOLOMB_PAR_EXPOSURE_FLAGS and without escape mechanism
decode_field(bytes, p, limit, shape, f, bit_len, c) ==
    IF shape = "S_FX" /\ f = 1
    THEN decode_normal(bytes, p, limit, select_encoder(c.golomb_par),
                       GOLOMB_PAR_EXPOSURE_FLAGS,
                       ilog_2(GOLOMB_PAR_EXPOSURE_FLAGS), UINT8_MAX)
    ELSE decode_value(bytes, p, limit, bit_len, c)

RECURSIVE decode_fields(_, _, _, _, _, _, _)
RECURSIVE decode_fields_next(_, _, _, _, _, _, _)

\* the fields of all samples in the order they were written; k counts the
\* fields read so far, acc holds them
decode_fields(bytes, limit, c, shape, k, p, acc) ==
    IF k >= c.samples * Len(FieldWidths(shape))
    THEN [ok |-> TRUE, vals |-> acc]
    ELSE decode_fields_next(
             decode_field(bytes, p, limit, shape,
                          (k % Len(FieldWidths(shape))) + 1,
                          FieldWidths(shape)[(k % Len(FieldWidths(shape))) + 1],
                          c),
             bytes, limit, c, shape, k, acc)

\* r is the field read
decode_fields_next(r, bytes, limit, c, shape, k, acc) ==
    IF ~r.ok THEN [ok |-> FALSE, vals |-> acc]
    ELSE decode_fields(bytes, limit, c, shape, k + 1, r.pos, Append(acc, r.val))

\* the inverse of map_to_pos_alg_8 / _16 / _32 in a field of w bits
map_to_pos_inv(u, w) ==
    IF 0 \in u
    THEN Trunc(SUB32(ZERO32, ADD32(SHR32(u, 1), ONE32)), w)
    ELSE SHR32(u, 1)

\* the inverse of the mapper on one field: the bias of the zero escape
\* mechanism is taken off, then the value is unfolded
unmap_field(u, w, zero_mode_used) ==
    IF zero_mode_used /\ w # 8
    THEN map_to_pos_inv(Trunc(SUB32(u, ONE32), w), w)
    ELSE map_to_pos_inv(u, w)

\* field-wise sum, wrapping in the width of the field
add_sample(a, b, widths) ==
    [f \in 1..Len(a) |-> Trunc(ADD32(a[f], b[f]), widths[f])]

RECURSIVE undo_diff(_, _, _)
\* the inverse of the differencing: data[i] = data[i] + data[i-1], head to
\* tail; i is the index of the element to restore
undo_diff(data, i, widths) ==
    IF i > Len(data) THEN data
    ELSE undo_diff([data EXCEPT ![i] = add_sample(data[i], data[i - 1], widths)],
                   i + 1, widths)

\* the rounded samples are shifted back
de_lossy_rounding(rounded, round, widths) ==
    [i \in 1..Len(rounded) |->
        de_lossy_rounding_sample(rounded[i], round, widths)]

\* the inverse of the pre-processing: the residuals become rounded samples
\* again, which are shifted back
undo_pre_process(c, residuals, model, widths) ==
    de_lossy_rounding(
        IF diff_mode_is_used(c.cmp_mode)
        THEN undo_diff(residuals, 2, widths)
        ELSE [i \in 1..Len(residuals) |->
                add_sample(residuals[i],
                           lossy_rounding_sample(model[i], c.round, widths),
                           widths)],
        c.round, widths)

\* the samples of a raw stream: the fields lie big-endian one behind the
\* other
decode_raw(bytes, c, widths) ==
    IF c.samples * size_of_a_sample(c.cmp_mode) > c.buffer_length * 2
    THEN NoDec
    ELSE [ok |-> TRUE,
          data |-> [i \in 1..c.samples |->
                      [f \in 1..Len(widths) |->
                          GetBits(bytes,
                                  (i - 1) * SeqSum(widths)
                                  + SeqSum(SubSeq(widths, 1, f - 1)),
                                  widths[f])]]]

\* the residuals the decoded fields d stand for
unmap_fields(d, c, widths) ==
    [i \in 1..c.samples |->
        [f \in 1..Len(widths) |->
            unmap_field(d.vals[(i - 1) * Len(widths) + f], widths[f],
                        zero_escape_mech_is_used(c.cmp_mode))]]

\* the samples the decoded fields d stand for
decoded_data(d, c, model, widths) ==
    IF ~d.ok THEN NoDec
    ELSE [ok |-> TRUE,
          data |-> undo_pre_process(c, unmap_fields(d, c, widths), model,
                                    widths)]

\* decompress_data: the samples the stream in bytes stands for, given the
\* configuration of the compression and the model it started from
decompress_data(bytes, c, model) ==
    IF raw_mode_is_used(c.cmp_mode)
    THEN decode_raw(bytes, c, FieldWidths(ShapeOf(c.cmp_mode)))
    ELSE decoded_data(decode_fields(bytes, Len(bytes) * 8, c,
                                    ShapeOf(c.cmp_mode), 0, 0, << >>),
                      c, model, FieldWidths(ShapeOf(c.cmp_mode)))

\* after a successful compression the caller hands the output buffer, the
\* configuration and the model it started from to the decompressor
Decompress ==
    /\ pc = "done"
    /\ ret = 0
    /\ dec' = decompress_data(mem[cfg.icu_output_buf], cfg, orig[cfg.model_buf])
    /\ pc' = "dec"
    /\ UNCHANGED <<cfg, mem, orig, info, info_given, host, ub, last, enc_err, ret,
                   args, res>>

Next ==
    \/ SetInfo
    \/ CfgValid
    \/ CfgValidCall
    \/ PreProcess
    \/ MapToPos
    \/ EncodeData
    \/ Decompress

Spec == Init /\ [][Next]_vars

SpecCfg == InitCfg /\ [][Next]_vars

\* ------------------------------------------------------------------------
\* The mapper on its own: the pipeline stands before map_to_pos with one
\* sample in the data buffer (a differencing mode leaves a single sample as
\* it is), and the decompressor's inverse mapping is applied to the result
\* ------------------------------------------------------------------------

MapModes == {MODE_DIFF_ZERO, MODE_DIFF_MULTI, MODE_DIFF_ZERO_32,
             MODE_DIFF_MULTI_32, MODE_DIFF_ZERO_S_FX, MODE_DIFF_MULTI_S_FX}

\* values of a field of w bits: the single bits, and the values next to 0,
\* to the largest and to the most negative value
EdgeValues(w) ==
    {{k} : k \in 0..(w - 1)}
    \cup {{}, {0, 1}, 0..(w - 1), 1..(w - 1), 0..(w - 2), 1..(w - 2),
          {0, w - 1}, {w - 2, w - 1}, {0, w - 2, w - 1}, 0..(w - 3)}

\* the samples the mapper is tried on: every value of the 8-bit field
MapSamples(shape) ==
    CASE shape = "U16" -> {<<v>> : v \in EdgeValues(16)}
      [] shape = "U32" -> {<<v>> : v \in EdgeValues(32)}
      [] shape = "S_FX" -> {<<FromNat(b), FromNat(5)>> : b \in 0..UINT8_MAX}
                           \cup {<<ZERO32, v>> : v \in EdgeValues(32)}

\* info as set_info and icu_cmp_cfg_valid leave it
InfoOf(c) == icu_cmp_cfg_valid(c, set_info(c, ZeroInfo, TRUE).info, TRUE).info

MapState(c, m, u) ==
    /\ cfg = c
    /\ mem = m
    /\ orig = m
    /\ info = InfoOf(c)
    /\ info_given = TRUE
    /\ host = "BE"
    /\ ub = u
    /\ pc = "map"
    /\ last = "pre_process"
    /\ enc_err = 0
    /\ ret = 0
    /\ dec = NoDec
    /\ args = NoArgs
    /\ res = NoArgs

InitMap ==
    \E mode \in MapModes, u \in {"wrap", "trap"} :
      \E s \in MapSamples(ShapeOf(mode)) :
        MapState(MkCfg(mode, 4, 8, 8, 0, 1, 6, "A", "M", NULL, "O"),
                 MkMem(ShapeOf(mode), <<s>>, 0, 6), u)

\* the inverse mapping on the samples of a data buffer
unmap_buf(data, c, widths) ==
    [i \in 1..c.samples |->
        [f \in 1..Len(widths) |->
            unmap_field(data[i][f], widths[f],
                        zero_escape_mech_is_used(c.cmp_mode))]]

\* the decompressor maps the data buffer back
MapInverse ==
    /\ pc = "enc"
    /\ last = "map_to_pos"
    /\ dec' = [ok |-> TRUE,
               data |-> unmap_buf(mem[cfg.input_buf], cfg,
                                  FieldWidths(ShapeOf(cfg.cmp_mode)))]
    /\ pc' = "unmapped"
    /\ UNCHANGED <<cfg, mem, orig, info, info_given, host, ub, last, enc_err,
                   ret, args, res>>

NextMap ==
    \/ MapToPos
    \/ MapInverse

SpecMap == InitMap /\ [][NextMap]_vars

\* ------------------------------------------------------------------------
\* Routines called on their own.  args holds the arguments, res what the
\* routine handed back; the output buffer is buffer O.
\* ------------------------------------------------------------------------

\* a state in which a routine is about to be called with arguments a
CallState(c, m, h, u, where, a) ==
    /\ cfg = c
    /\ mem = m
    /\ orig = m
    /\ info = InfoOf(c)
    /\ info_given = TRUE
    /\ host = h
    /\ ub = u
    /\ pc = where
    /\ last = "none"
    /\ enc_err = 0
    /\ ret = 0
    /\ dec = NoDec
    /\ args = a
    /\ res = NoArgs

\* bit i of the stream: bit 0 is the most significant bit of word 0
WordBit(bytes, i, h) ==
    IF (31 - (i % 32)) \in ReadWord(bytes, i \div 32, h) THEN 1 ELSE 0

\* the first n bits of the stream
WordBits(bytes, n, h) == [i \in 1..n |-> WordBit(bytes, i - 1, h)]

\* ------------------------------------------------------------------------
\* encode_value on its own: two values of a field are encoded, each into an
\* empty stream, with the encoder state encode_data sets up
\* ------------------------------------------------------------------------

\* the modes encode_value is tried with, and the bit_len its callers pass
\* for a field of the mode
CodeModes == {<<MODE_DIFF_ZERO, 16>>, <<MODE_DIFF_MULTI, 16>>,
              <<MODE_DIFF_ZERO_32, 32>>, <<MODE_DIFF_MULTI_32, 32>>,
              <<MODE_DIFF_ZERO_S_FX_EFX, 8>>, <<MODE_DIFF_MULTI_S_FX_EFX, 8>>}

CodePars == {1, 2, 3, 4, 5}

\* the spills of a Golomb parameter: the smallest, one in between and the
\* largest the validator accepts
CodeSpills(g, mode) ==
    {sp \in {MIN_ICU_SPILL, 8, get_max_spill(g, mode)} :
        sp <= get_max_spill(g, mode)}

\* values of a field of bit_len bits: around 0, around the spill, at the
\* steps of the multi escape table and at the end of the range
CodeValues(sp, bit_len) ==
    {FromNat(n) : n \in {k \in (0..4) \cup ((sp - 2)..(sp + 4))
                               \cup {sp + 15, sp + 16, sp + 63, sp + 64,
                                     sp + 255} :
                        bit_len = 32 \/ k < 2^bit_len}}
    \cup {0..(bit_len - 1), 1..(bit_len - 1), {bit_len - 1}, 0..(bit_len - 2)}

InitCode ==
    \E mb \in CodeModes, g \in CodePars, h \in {"LE", "BE"} :
      \E sp \in CodeSpills(g, mb[1]) :
        \E v1 \in CodeValues(sp, mb[2]) :
         \E v2 \in {v \in CodeValues(sp, mb[2]) : ~LT32(v, v1)} :
          CallState(MkCfg(mb[1], g, sp, 8, 0, 1, 6, "A", "M", NULL, "O"),
                    [MkMem(ShapeOf(mb[1]), << >>, 0, 6) EXCEPT
                        !["O"] = [i \in 1..12 |-> 0]],
                    h, "wrap", "code",
                    [v1 |-> v1, v2 |-> v2, bit_len |-> mb[2]])

\* what encode_value emitted: its status and the bits of the stream
Emission(r, h) == [err |-> r.err, bits |-> WordBits(r.out, r.enc.cmp_size, h)]

EncodeValues ==
    /\ pc = "code"
    /\ res' = [e1 |-> Emission(encode_value(args.v1, args.bit_len, cfg,
                                   encoder_struct(cfg),
                                   mem[cfg.icu_output_buf], host), host),
               e2 |-> Emission(encode_value(args.v2, args.bit_len, cfg,
                                   encoder_struct(cfg),
                                   mem[cfg.icu_output_buf], host), host)]
    /\ pc' = "coded"
    /\ UNCHANGED <<cfg, mem, orig, info, info_given, host, ub, last, enc_err,
                   ret, dec, args>>

SpecCode == InitCode /\ [][EncodeValues]_vars

\* ------------------------------------------------------------------------
\* put_n_bits32 on its own: nBits bits of value are put at bitOffset of a
\* destination of dest_len 16-bit words that holds the same byte everywhere
\* ------------------------------------------------------------------------

\* ------------------------------------------------------------------------
\* pre_process on its own in the differencing modes, on up to DiffLen
\* samples: from three samples on the order of the loop matters
\* ------------------------------------------------------------------------

DiffLen == 3

DiffTried == {MODE_DIFF_ZERO, MODE_DIFF_MULTI_32, MODE_DIFF_ZERO_F_FX,
              MODE_DIFF_ZERO_S_FX, MODE_DIFF_MULTI_S_FX_EFX,
              MODE_DIFF_ZERO_S_FX_NCOB, MODE_DIFF_MULTI_S_FX_EFX_NCOB_ECOB}

InitDiff ==
    \E mode \in DiffTried, rnd \in {0, 2}, n \in 1..DiffLen :
      \E data \in [1..n -> SamplesOf(ShapeOf(mode))] :
        CallState(MkCfg(mode, 4, 8, 8, rnd, n, 6, "A", "M", NULL, "O"),
                  MkMem(ShapeOf(mode), data, 0, 6), "BE", "wrap", "pre",
                  NoArgs)

SpecDiff == InitDiff /\ [][PreProcess]_vars

\* ---- encode_value and encode_normal on a stream that is partly filled ----

\* the bits the stream holds when the routine is called
StreamCursors == {0, 20, 23, 24, 26, 28, 32}

StreamModes == {<<MODE_DIFF_ZERO, 16>>, <<MODE_DIFF_MULTI, 16>>,
                <<MODE_DIFF_ZERO_S_FX_EFX, 8>>, <<MODE_DIFF_MULTI_32, 32>>,
                <<MODE_DIFF_ZERO_S_FX, 32>>}

StreamPars == {1, 3, 4, 256}

StreamSpill == 8

\* 4^k - 1 and 4^k for k = 1..15, the steps of the table of cal_multi_offset
MultiSteps == {0..(2 * k - 1) : k \in 1..15} \cup {{2 * k} : k \in 1..15}

\* values around 0 and spill, and spill + d for d on both sides of every
\* step, as far as a field of bit_len bits holds them
StreamValues(bit_len) ==
    {v \in {FromNat(n) : n \in {0, 1, 7, 8, 9, 11, 32, 40}}
            \cup {ADD32(FromNat(StreamSpill), d) : d \in MultiSteps} :
        \A b \in v : b < bit_len}

InitStream ==
    \E mb \in StreamModes, g \in StreamPars, h \in {"LE", "BE"},
       bl \in {2, 4}, at \in StreamCursors :
      \E v \in StreamValues(mb[2]) :
        CallState(MkCfg(mb[1], g, StreamSpill, 8, 0, 1, bl, "A", "M", NULL,
                        "O"),
                  MkMem(ShapeOf(mb[1]), << >>, 0, bl),
                  h, "wrap", "stream",
                  [v1 |-> v, bit_len |-> mb[2], at |-> at])

\* the encoder state of encode_data, the stream holding at bits already
EncoderAt(at) == [encoder_struct(cfg) EXCEPT !.cmp_size = at]

StreamRes(r) ==
    [err |-> r.err, cmp_size |-> r.enc.cmp_size, out |-> r.out, ub |-> r.ub]

\* encode_value(value, bit_len, cfg, enc)
EncodeValueAt ==
    /\ pc = "stream"
    /\ res' = StreamRes(encode_value(args.v1, args.bit_len, cfg,
                                     EncoderAt(args.at),
                                     mem[cfg.icu_output_buf], host))
    /\ pc' = "value"
    /\ UNCHANGED <<cfg, mem, orig, info, info_given, host, ub, last, enc_err,
                   ret, dec, args>>

\* encode_normal(value, cfg, enc)
EncodeNormalAt ==
    /\ pc = "stream"
    /\ res' = StreamRes(encode_normal(args.v1, cfg, EncoderAt(args.at),
                                      mem[cfg.icu_output_buf], host))
    /\ pc' = "normal"
    /\ UNCHANGED <<cfg, mem, orig, info, info_given, host, ub, last, enc_err,
                   ret, dec, args>>

\* encode_normal(EXPOSURE_FLAGS, &cfg_exp_flag, &enc_exp_flag), the call of
\* encode_S_FX for the exposure flags
EncodeFlagsAt ==
    /\ pc = "stream"
    /\ ShapeOf(cfg.cmp_mode) = "S_FX"
    /\ res' = StreamRes(encode_normal(
                  args.v1,
                  [cfg EXCEPT !.golomb_par = GOLOMB_PAR_EXPOSURE_FLAGS],
                  [EncoderAt(args.at) EXCEPT !.log2_golomb_par =
                                        ilog_2(GOLOMB_PAR_EXPOSURE_FLAGS)],
                  mem[cfg.icu_output_buf], host))
    /\ pc' = "flags"
    /\ UNCHANGED <<cfg, mem, orig, info, info_given, host, ub, last, enc_err,
                   ret, dec, args>>

NextStream == EncodeValueAt \/ EncodeNormalAt \/ EncodeFlagsAt

SpecStream == InitStream /\ [][NextStream]_vars

\* ---- Rice_encoder and Golomb_encoder on their own ----

WordPars == {1, 2, 3, 4, 5, 6, 7, 8, 12, 16, 255, 256, 32768, 65535}

WordValues == (0..40) \cup {63, 64, 255, 256, 511, 65535, 65536, 1000000}

InitWord ==
    \E m \in WordPars, u \in WordValues :
        CallState(MkCfg(MODE_DIFF_ZERO, m, MIN_ICU_SPILL, 8, 0, 1, 2, "A",
                        "M", NULL, "O"),
                  MkMem("U16", << >>, 0, 2), "BE", "wrap", "word",
                  [value |-> u, m |-> m, log2_m |-> ilog_2(m)])

\* len = Rice_encoder(value, m, log2_m, &cw) and
\* len = Golomb_encoder(value, m, log2_m, &cw)
EncodeWord ==
    /\ pc = "word"
    /\ res' = [Rice   |-> Rice_encoder(args.value, args.m, args.log2_m),
               Golomb |-> Golomb_encoder(args.value, args.m, args.log2_m)]
    /\ pc' = "worded"
    /\ UNCHANGED <<cfg, mem, orig, info, info_given, host, ub, last, enc_err,
                   ret, dec, args>>

SpecWord == InitWord /\ [][EncodeWord]_vars

PutLengths == {1, 2, 3}
\* the offsets in and just behind the destination, and the offsets from which
\* bitOffset + nBits passes 2^32: 0xFFFFFFFF, 0xFFFFFFF8, 0xFFFFFFE0 and
\* 0xFFFFFFD8
PutOffsets == {FromNat(k) : k \in 0..66}
              \cup {ALL32, ALL32 \ {0, 1, 2}, ALL32 \ {0, 1, 2, 3, 4},
                    ALL32 \ {0, 1, 2, 5}}
PutBitCounts == {0, 1, 2, 7, 8, 15, 16, 17, 31, 32, 33, 40}
\* 0, 0xFFFFFFFF, 0xA5A5A5A5 and 0x80000001
PutValues == {ZERO32, ALL32, {0, 2, 5, 7, 8, 10, 13, 15, 16, 18, 21, 23, 24,
                              26, 29, 31}, {0, 31}}
PutFills == {0, 255, 165}

InitPut ==
    \E dest_len \in PutLengths, bitOffset \in PutOffsets,
       nBits \in PutBitCounts, value \in PutValues, fill \in PutFills,
       h \in {"LE", "BE"} :
      CallState(MkCfg(MODE_DIFF_ZERO, 4, 8, 8, 0, 1, dest_len, "A", "M", NULL,
                      "O"),
                [MkMem("U16", << >>, 0, dest_len) EXCEPT
                    !["O"] = [i \in 1..OutBytes(dest_len) |-> fill]],
                h, "wrap", "put",
                [value |-> value, bitOffset |-> bitOffset, nBits |-> nBits,
                 dest_len |-> dest_len])

PutBits ==
    /\ pc = "put"
    /\ \E p \in {put_n_bits32(args.value, args.bitOffset, args.nBits,
                              mem[cfg.icu_output_buf], args.dest_len, host)} :
         \* a write outside the destination is undefined: the program
         \* stops there or goes on
         \/ /\ p.oob
            /\ pc' = "abort"
            /\ UNCHANGED <<res, mem>>
         \/ /\ res' = p.ret
            /\ mem' = [mem EXCEPT ![cfg.icu_output_buf] = p.dest]
            /\ pc' = "put_done"
    /\ UNCHANGED <<cfg, orig, info, info_given, host, ub, last, enc_err, ret,
                   dec, args>>

SpecPut == InitPut /\ [][PutBits]_vars

\* ------------------------------------------------------------------------
\* COMPRESS_CHUNK_BOUND of cmp_chunk.h on its own, for unsigned 32-bit
\* arguments.  The sizes come from cmp_entity.h and cmp_data_types.h:
\* a non-imagette header of 32 + 32 bytes, 2 bytes of size field and 12
\* bytes of header for each collection, an entity of at most 0xFFFFFF bytes.
\* ------------------------------------------------------------------------

NON_IMAGETTE_HEADER_SIZE == 64
CMP_COLLECTION_FILD_SIZE == 2
COLLECTION_HDR_SIZE == 12
CMP_ENTITY_MAX_SIZE == 16777215

\* a + b and a * k leave the 32 bits (k a small factor)
AddWraps(a, b) ==
    Hi16(a) + Hi16(b) + ((Lo16(a) + Lo16(b)) \div 65536) >= 65536
MulWraps(a, k) == Hi16(a) * k + ((Lo16(a) * k) \div 65536) >= 65536

\* (((x)+3)/4)*4
ROUND_UP_TO_4(x) == SHL32(SHR32(ADD32(x, FromNat(3)), 2), 2)

\* NON_IMAGETTE_HEADER_SIZE + (num_col) * CMP_COLLECTION_FILD_SIZE, the
\* left operand of the sum
chunk_bound_headers(num_col) ==
    ADD32(FromNat(NON_IMAGETTE_HEADER_SIZE),
          MUL32(num_col, CMP_COLLECTION_FILD_SIZE))

COMPRESS_CHUNK_BOUND_UNSAFE(chunk_size, num_col) ==
    ROUND_UP_TO_4(ADD32(chunk_bound_headers(num_col), chunk_size))

\* an operation of COMPRESS_CHUNK_BOUND_UNSAFE leaves the 32 bits
COMPRESS_CHUNK_BOUND_UNSAFE_wraps(chunk_size, num_col) ==
    \/ MulWraps(num_col, CMP_COLLECTION_FILD_SIZE)
    \/ AddWraps(FromNat(NON_IMAGETTE_HEADER_SIZE),
                MUL32(num_col, CMP_COLLECTION_FILD_SIZE))
    \/ AddWraps(chunk_bound_headers(num_col), chunk_size)
    \/ AddWraps(ADD32(chunk_bound_headers(num_col), chunk_size), FromNat(3))

\* the conditions in front of the sum; && evaluates from the left and
\* stops at the first one that fails
chunk_bound_num_col_ok(num_col) ==
    /\ num_col # ZERO32
    /\ LE32(num_col, FromNat(CMP_ENTITY_MAX_SIZE \div COLLECTION_HDR_SIZE))

chunk_bound_chunk_size_ok(chunk_size, num_col) ==
    /\ LE32(MUL32(num_col, COLLECTION_HDR_SIZE), chunk_size)
    /\ LE32(chunk_size, FromNat(CMP_ENTITY_MAX_SIZE))

\* the macro without its tests of num_col and chunk_size against
\* CMP_ENTITY_MAX_SIZE
COMPRESS_CHUNK_BOUND_two_tests(chunk_size, num_col) ==
    IF /\ num_col # ZERO32
       /\ LE32(MUL32(num_col, COLLECTION_HDR_SIZE), chunk_size)
       /\ LE32(COMPRESS_CHUNK_BOUND_UNSAFE(chunk_size, num_col),
               FromNat(CMP_ENTITY_MAX_SIZE))
    THEN COMPRESS_CHUNK_BOUND_UNSAFE(chunk_size, num_col)
    ELSE ZERO32

COMPRESS_CHUNK_BOUND(chunk_size, num_col) ==
    IF /\ chunk_bound_num_col_ok(num_col)
       /\ chunk_bound_chunk_size_ok(chunk_size, num_col)
       /\ LE32(COMPRESS_CHUNK_BOUND_UNSAFE(chunk_size, num_col),
               FromNat(CMP_ENTITY_MAX_SIZE))
    THEN COMPRESS_CHUNK_BOUND_UNSAFE(chunk_size, num_col)
    ELSE ZERO32

\* an operation that COMPRESS_CHUNK_BOUND evaluates leaves the 32 bits
COMPRESS_CHUNK_BOUND_wraps(chunk_size, num_col) ==
    /\ chunk_bound_num_col_ok(num_col)
    /\ \/ MulWraps(num_col, COLLECTION_HDR_SIZE)
       \/ /\ chunk_bound_chunk_size_ok(chunk_size, num_col)
          /\ COMPRESS_CHUNK_BOUND_UNSAFE_wraps(chunk_size, num_col)

\* numbers of collections: 0, 1, 3, both sides of CMP_ENTITY_MAX_SIZE / 12,
\* 0x15555556 and 0x40000000 (12 * num_col wraps to 8 and to 0), 0x7FFFFFFF,
\* 0x80000000 (2 * num_col wraps to 0) and 0xFFFFFFFF
ChunkNumCols ==
    {FromNat(n) : n \in {0, 1, 3, 1398101, 1398102, 357913942, 1073741824,
                         2147483647}}
    \cup {{31}, ALL32}

\* chunk sizes: around 12 and 36, around 1000, both sides of the largest
\* size with a bound for one and for three collections, around
\* CMP_ENTITY_MAX_SIZE, and sizes whose sum with the headers wraps
ChunkSizes ==
    {FromNat(n) : n \in {0, 8, 11, 12, 13, 35, 36, 1000, 1001, 1002, 1003,
                         16777138, 16777139, 16777142, 16777143, 16777146,
                         16777147, 16777212, 16777215, 16777216,
                         2147483647}}
    \cup {{31}, ALL32 \ {0, 1}, ALL32 \ {6}, ALL32}

InitChunk ==
    \E chunk_size \in ChunkSizes, num_col \in ChunkNumCols :
      CallState(MkCfg(MODE_DIFF_ZERO, 4, 8, 8, 0, 1, 1, "A", "M", NULL, "O"),
                MkMem("U16", << >>, 0, 1), "BE", "wrap", "bound",
                [chunk_size |-> chunk_size, num_col |-> num_col])

ChunkBound ==
    /\ pc = "bound"
    /\ res' = [bound |-> COMPRESS_CHUNK_BOUND(args.chunk_size, args.num_col),
               wraps |-> COMPRESS_CHUNK_BOUND_wraps(args.chunk_size,
                                                    args.num_col)]
    /\ pc' = "bounded"
    /\ UNCHANGED <<cfg, mem, orig, info, info_given, host, ub, last, enc_err,
                   ret, dec, args>>

SpecChunk == InitChunk /\ [][ChunkBound]_vars

\* what the decompressor has to deliver: the input, rounded and shifted
\* back (the raw modes do not round)
Expected ==
    LET widths == FieldWidths(ShapeOf(cfg.cmp_mode))
    IN  [i \in 1..cfg.samples |->
            IF raw_mode_is_used(cfg.cmp_mode) THEN orig[cfg.input_buf][i]
            ELSE de_lossy_rounding_sample(
                     lossy_rounding_sample(orig[cfg.input_buf][i], cfg.round,
                                           widths),
                     cfg.round, widths)]

\* ------------------------------------------------------------------------
\* The bits a complete bit stream takes
\* ------------------------------------------------------------------------

\* the length of the code word of value under the Golomb parameter m
code_word_len(value, m) ==
    CallEncoder(select_encoder(m), ToNat(value), m, ilog_2(m)).len

\* the escape symbol spill + off and the (off + 1) * 2 unencoded bits
multi_escape_bits(off, c) ==
    code_word_len(FromNat(c.spill + off), c.golomb_par) + (off + 1) * 2

\* the bits encode_value has to write for one value: its code word, or the
\* escape symbol and the unencoded bits behind it
value_bits(value, bit_len, c) ==
    IF ~is_outlier(value, c) THEN code_word_len(value, c.golomb_par)
    ELSE IF multi_escape_mech_is_used(c.cmp_mode)
    THEN multi_escape_bits(cal_multi_offset(SUB32(value, FromNat(c.spill))), c)
    ELSE code_word_len(ZERO32, c.golomb_par) + bit_len

\* field f of a sample; encode_S_FX writes the exposure flags with
\* GOLOMB_PAR_EXPOSURE_FLAGS and without escape mechanism
field_bits(sample, f, shape, c) ==
    IF shape = "S_FX" /\ f = 1
    THEN code_word_len(sample[1], GOLOMB_PAR_EXPOSURE_FLAGS)
    ELSE value_bits(sample[f], FieldWidths(shape)[f], c)

RECURSIVE stream_bits(_, _, _, _)
\* the first k fields of the data buffer, counted over all samples
stream_bits(data, k, shape, c) ==
    IF k = 0 THEN 0
    ELSE stream_bits(data, k - 1, shape, c)
         + field_bits(data[((k - 1) \div Len(FieldWidths(shape))) + 1],
                      ((k - 1) % Len(FieldWidths(shape))) + 1, shape, c)

\* the bits of the complete bit stream of the mapped data in the data buffer
StreamBits ==
    stream_bits(mem[cfg.input_buf],
                cfg.samples * Len(FieldWidths(ShapeOf(cfg.cmp_mode))),
                ShapeOf(cfg.cmp_mode), cfg)

\* ------------------------------------------------------------------------
\* Properties
\* ------------------------------------------------------------------------

\* C1 -- round trip: whenever icu_compress_data has returned 0 on a valid
\* configuration, the decompressor, given the output buffer, the same
\* configuration and the initial model, delivers
\* round_inv(round_fwd(input)) sample by sample (the input itself in the raw
\* modes and when round is 0)
C1_RoundTrip == pc = "dec" => dec.ok /\ dec.data = Expected

\* C2 -- capacity detection: when the complete bit stream of a valid non-raw
\* configuration takes more bits than the output buffer holds,
\* icu_compress_data returns -2, SMALL_BUFFER_ERR_BIT is set in
\* info.cmp_err and info.cmp_size is 0
C2_CapacityDetected ==
    (/\ pc = "done"
     /\ last = "encode_data"
     /\ ~raw_mode_is_used(cfg.cmp_mode)
     /\ StreamBits > Len(mem[cfg.icu_output_buf]) * 8)
    => /\ ret = -2
       /\ info_given => /\ SMALL_BUFFER_ERR_BIT \in info.cmp_err
                        /\ info.cmp_size = 0

\* C3 -- the return value -2 is reserved for a too small output buffer:
\* whenever icu_compress_data returns -2, it is encode_data that returned
\* it (not set_info, not the validator), and SMALL_BUFFER_ERR_BIT is set in
\* info.cmp_err when info is given
C3_SmallBufferReserved ==
    (pc = "done" /\ ret = -2)
    => /\ last = "encode_data"
       /\ info_given => SMALL_BUFFER_ERR_BIT \in info.cmp_err

\* C4 -- configuration errors never mutate a buffer: whenever
\* icu_compress_data has returned because set_info or icu_cmp_cfg_valid
\* rejected the configuration, the data, model, updated model and output
\* buffers hold what they held before the call
C4_RejectedLeavesBuffers ==
    (pc = "done" /\ last \in {"set_info", "icu_cmp_cfg_valid"})
    => ret < 0 /\ mem = orig

\* a rejected configuration whose buffers the later stages would have
\* changed: a model mode with a sample, valid buffers and a Golomb
\* parameter of 0
C4_Witness ==
    /\ pc = "done"
    /\ last = "icu_cmp_cfg_valid"
    /\ ret < 0
    /\ cfg.cmp_mode = MODE_MODEL_MULTI
    /\ cfg.samples = 1
    /\ cfg.golomb_par = 0
    /\ <<cfg.input_buf, cfg.model_buf, cfg.icu_new_model_buf,
         cfg.icu_output_buf>> = <<"A", "M", "U", "O">>
    /\ pre_process(cfg, mem).mem # mem

\* C5 -- configuration errors are surfaced with their error bit: whenever
\* icu_compress_data, with info given, has returned a negative value from
\* set_info or icu_cmp_cfg_valid, CMP_MODE_ERR_BIT is set for an
\* unrecognised mode, MODEL_VALUE_ERR_BIT for a model_value above
\* MAX_MODEL_VALUE in a model mode, and CMP_PAR_ERR_BIT for a golomb_par or
\* spill outside its range in a mode that is not raw
C5_ErrorBitsSurfaced ==
    (/\ pc = "done"
     /\ last \in {"set_info", "icu_cmp_cfg_valid"}
     /\ ret < 0
     /\ info_given)
    => /\ cfg.cmp_mode \notin AllModes => CMP_MODE_ERR_BIT \in info.cmp_err
       /\ (model_mode_is_used(cfg.cmp_mode) /\ cfg.model_value > MAX_MODEL_VALUE)
          => MODEL_VALUE_ERR_BIT \in info.cmp_err
       /\ (/\ ~raw_mode_is_used(cfg.cmp_mode)
           /\ \/ cfg.golomb_par < MIN_ICU_GOLOMB_PAR
              \/ cfg.golomb_par > MAX_ICU_GOLOMB_PAR
              \/ cfg.spill < MIN_ICU_SPILL
              \/ cfg.spill > get_max_spill(cfg.golomb_par, cfg.cmp_mode))
          => CMP_PAR_ERR_BIT \in info.cmp_err

\* C6 -- icu_cmp_cfg_valid, called on its own, returns the negated number
\* of the checks that fail (0 exactly when none fails): all checks on the
\* buffers and the mode are counted, and the checks on model_value,
\* golomb_par, spill and round are counted unless the mode is raw
C6_CountsFailedChecks ==
    pc = "checked" =>
      ret = -Cardinality(
        {n \in {"input_null", "output_null", "no_space", "output_is_input",
                "model_null", "model_is_input", "model_is_output",
                "new_model_is_input", "new_model_is_output", "raw_too_small",
                "mode", "model_value", "golomb_par", "spill_small",
                "spill_large", "round"} :
           CASE n = "input_null" -> cfg.input_buf = NULL
             [] n = "output_null" -> cfg.icu_output_buf = NULL
             [] n = "no_space" -> cfg.buffer_length = 0 /\ cfg.samples # 0
             [] n = "output_is_input" -> cfg.icu_output_buf = cfg.input_buf
             [] n = "model_null" ->
                  cfg.cmp_mode \in ModelZeroModes \cup ModelMultiModes
                  /\ cfg.model_buf = NULL
             [] n = "model_is_input" ->
                  cfg.cmp_mode \in ModelZeroModes \cup ModelMultiModes
                  /\ cfg.model_buf = cfg.input_buf
             [] n = "model_is_output" ->
                  cfg.cmp_mode \in ModelZeroModes \cup ModelMultiModes
                  /\ cfg.model_buf = cfg.icu_output_buf
             [] n = "new_model_is_input" ->
                  cfg.cmp_mode \in ModelZeroModes \cup ModelMultiModes
                  /\ cfg.icu_new_model_buf = cfg.input_buf
             [] n = "new_model_is_output" ->
                  cfg.cmp_mode \in ModelZeroModes \cup ModelMultiModes
                  /\ cfg.icu_new_model_buf = cfg.icu_output_buf
             [] n = "raw_too_small" ->
                  cfg.cmp_mode \in RawModes /\ cfg.samples > cfg.buffer_length
             [] n = "mode" -> cfg.cmp_mode \notin AllModes
             [] n = "model_value" ->
                  cfg.cmp_mode \in ModelZeroModes \cup ModelMultiModes
                  /\ cfg.model_value > MAX_MODEL_VALUE
             [] n = "golomb_par" ->
                  cfg.cmp_mode \notin RawModes
                  /\ cfg.golomb_par \notin
                         MIN_ICU_GOLOMB_PAR..MAX_ICU_GOLOMB_PAR
             [] n = "spill_small" ->
                  cfg.cmp_mode \notin RawModes /\ cfg.spill < MIN_ICU_SPILL
             [] n = "spill_large" ->
                  cfg.cmp_mode \notin RawModes
                  /\ cfg.spill > get_max_spill(cfg.golomb_par, cfg.cmp_mode)
             [] n = "round" ->
                  cfg.cmp_mode \notin RawModes /\ cfg.round > MAX_ICU_ROUND})

\* the validator has counted four failed checks at once: two on the
\* buffers, golomb_par and spill
C6_Witness ==
    /\ pc = "checked"
    /\ ret = -4
    /\ cfg.cmp_mode = MODE_DIFF_ZERO
    /\ cfg.input_buf = NULL
    /\ cfg.buffer_length = 0
    /\ cfg.golomb_par = 0
    /\ cfg.spill = 0

\* C7 -- without samples a valid configuration (buffer_length may be 0)
\* makes icu_compress_data return 0, with info.cmp_size 0 and info.cmp_err 0
\* when info is given, and no buffer is written
C7_NoSamples ==
    cfg.samples = 0 =>
      /\ pc # "abort"
      /\ pc = "done" => /\ ret = 0
                        /\ last = "encode_data"
                        /\ mem = orig
                        /\ info_given => info.cmp_size = 0 /\ info.cmp_err = {}

\* icu_compress_data has returned without samples and without space in the
\* output buffer, and info held errors of an earlier call
C7_Witness ==
    /\ pc = "done"
    /\ last = "encode_data"
    /\ cfg.samples = 0
    /\ cfg.buffer_length = 0
    /\ info_given
    /\ ~raw_mode_is_used(cfg.cmp_mode)

\* C8 -- stage failures terminate the pipeline: icu_compress_data returns
\* a non-zero value whenever pre_process, map_to_pos or the encode routine
\* of the mode reported a non-zero status, and after a failed pre_process or
\* map_to_pos no later stage has run
C8_StageFailureReturned ==
    /\ (pc = "done" /\ last = "encode_data" /\ enc_err # 0) => ret # 0
    /\ (pc = "done" /\ last \in {"pre_process", "map_to_pos"}) => ret # 0

\* C9 -- the dispatcher is total over the mode enum: on a valid
\* configuration with samples neither pre_process nor map_to_pos nor
\* encode_data ends in its default branch, that is, returns -1 for the
\* mode
C9_DispatchTotal ==
    (pc = "done" /\ cfg.samples > 0)
    => /\ last \notin {"pre_process", "map_to_pos"}
       /\ cfg.cmp_mode \in EncodedModes

\* C10 -- the mapping is a bijection on the full range of a field of 8, 16
\* and 32 bits, with and without the bias of the zero escape mechanism:
\* map_to_pos always yields a result, and the inverse mapping yields the
\* value mapped
C10_MapBijective ==
    /\ pc # "abort"
    /\ pc = "unmapped" => dec.data = SubSeq(orig[cfg.input_buf], 1, cfg.samples)

\* ------------------------------------------------------------------------
\* C11 -- For a fixed mode, golomb_par and spill the emissions of
\* encode_value form a prefix code: the emissions of two different values of
\* a field are never a prefix of one another.
\* ------------------------------------------------------------------------
IsPrefix(a, b) == Len(a) <= Len(b) /\ SubSeq(b, 1, Len(a)) = a

C11_PrefixFree ==
    (pc = "coded" /\ args.v1 # args.v2)
        => /\ ~IsPrefix(res.e1.bits, res.e2.bits)
           /\ ~IsPrefix(res.e2.bits, res.e1.bits)

\* a normal code word next to the escape symbol and payload of an outlier
C11_Witness ==
    /\ pc = "coded"
    /\ ~is_outlier(args.v1, cfg)
    /\ is_outlier(args.v2, cfg)
    /\ multi_escape_mech_is_used(cfg.cmp_mode)
    /\ cfg.golomb_par = 3
    /\ res.e1.err = 0 /\ res.e2.err = 0
    /\ Len(res.e1.bits) > 2
    /\ Len(res.e2.bits) > Len(res.e1.bits)

\* ------------------------------------------------------------------------
\* C12 -- In the model modes of the 16-bit, 32-bit, F_FX and S_FX shapes the
\* updated model goes to updated_model when that buffer is given and is not
\* the model buffer, and the model is then left as it was; only without an
\* updated_model buffer is the updated model written over the model.
\* ------------------------------------------------------------------------

\* pre_process has run and returned 0
PreProcessed ==
    /\ last \in {"pre_process", "map_to_pos", "encode_data"}
    /\ ~(last = "pre_process" /\ pc = "done")

\* the updated model of the samples: the blend of the input, rounded and
\* shifted back, with the model the call started from
UpdatedModel ==
    [i \in 1..cfg.samples |->
        cal_up_model_sample(
            de_lossy_rounding_sample(
                lossy_rounding_sample(orig[cfg.input_buf][i], cfg.round,
                                      FieldWidths(ShapeOf(cfg.cmp_mode))),
                cfg.round, FieldWidths(ShapeOf(cfg.cmp_mode))),
            orig[cfg.model_buf][i], cfg.model_value,
            FieldWidths(ShapeOf(cfg.cmp_mode)))]

C12_UpdatedModelPlace ==
    (/\ PreProcessed
     /\ model_mode_is_used(cfg.cmp_mode)
     /\ ShapeOf(cfg.cmp_mode) \in {"U16", "U32", "F_FX", "S_FX"}
     /\ cfg.samples > 0)
        => IF cfg.icu_new_model_buf = NULL
           THEN SubSeq(mem[cfg.model_buf], 1, cfg.samples) = UpdatedModel
           ELSE /\ mem[cfg.model_buf] = orig[cfg.model_buf]
                /\ SubSeq(mem[cfg.icu_new_model_buf], 1, cfg.samples)
                       = UpdatedModel

\* ------------------------------------------------------------------------
\* C13 -- When icu_compress_data returns an error the model buffer (and the
\* updated model buffer) hold what they held before the call: only the input
\* buffer and the output buffer may have been written.
\* ------------------------------------------------------------------------
C13_ErrorLeavesModel ==
    (pc = "done" /\ ret # 0)
        => /\ mem[cfg.model_buf] = orig[cfg.model_buf]
           /\ mem["U"] = orig["U"]

\* ------------------------------------------------------------------------
\* C14 -- The result of put_n_bits32: the small buffer sentinel, with the
\* destination unchanged, exactly when bit_offset + n exceeds
\* ceil(dst_words_16 / 2) * 2 * 16 bits; 0 with the destination unchanged
\* when n = 0 or n > 32; n when the n bits were written.  Where the clause
\* of the length and the clause of the capacity both apply, the clause of
\* the capacity, worded "exactly when", is taken.
\* ------------------------------------------------------------------------

\* bit_offset + n exceeds the capacity, the sum taken in the integers
PutExceeds ==
    \/ 31 \in args.bitOffset
    \/ ToNat(args.bitOffset) + args.nBits
           > ((args.dest_len + 1) \div 2) * 2 * 16

PutUnchanged == mem[cfg.icu_output_buf] = orig[cfg.icu_output_buf]

C14_PutResult ==
    pc = "put_done"
        => /\ PutExceeds <=> res = SMALL_BUF
           /\ res = SMALL_BUF => PutUnchanged
           /\ (~PutExceeds /\ (args.nBits = 0 \/ args.nBits > 32))
                  => res = 0 /\ PutUnchanged
           /\ (~PutExceeds /\ args.nBits \in 1..32) => res = args.nBits

\* ------------------------------------------------------------------------
\* C20 -- A successful put_n_bits32 of 1..32 bits makes the stream bits
\* [bit_offset, bit_offset + n) the n low-order bits of value, most
\* significant first, whatever they were, and leaves every other bit of the
\* destination as it was.
\* ------------------------------------------------------------------------

\* i - bit_offset, for a bit i of the destination at or behind bit_offset
PutBitIndex(i) == ToNat(SUB32(FromNat(i), args.bitOffset))

\* bit i of the destination lies in [bit_offset, bit_offset + n)
InPut(i) ==
    /\ LE32(args.bitOffset, FromNat(i))
    /\ PutBitIndex(i) < args.nBits

C20_PutBitsWritten ==
    (pc = "put_done" /\ res = args.nBits /\ args.nBits \in 1..32)
        => \A i \in 0..(8 * Len(mem[cfg.icu_output_buf]) - 1) :
              WordBit(mem[cfg.icu_output_buf], i, host)
                  = IF InPut(i)
                    THEN IF (args.nBits - 1 - PutBitIndex(i)) \in args.value
                         THEN 1 ELSE 0
                    ELSE WordBit(orig[cfg.icu_output_buf], i, host)

\* bits put across two words over a destination of ones, and 32 bits put at
\* a word boundary
C20_Witness ==
    /\ pc = "put_done"
    /\ res = args.nBits
    /\ orig[cfg.icu_output_buf][1] = 255
    /\ \/ args.bitOffset = FromNat(20) /\ args.nBits = 17
          /\ args.value = {0, 31}
       \/ args.bitOffset = FromNat(32) /\ args.nBits = 32
          /\ args.value = ZERO32

\* ------------------------------------------------------------------------
\* C15 -- Raw modes: when the validator accepted the configuration and
\* icu_compress_data returned 0, the output buffer starts with the
\* samples * sizeof(sample) bytes of the input samples, most significant
\* byte first, nothing else of the output buffer is written (no padding),
\* info.cmp_size is that number of bytes times 8, and the input is unchanged.
\* ------------------------------------------------------------------------
RawBytes ==
    BufferBytes(orig[cfg.input_buf], cfg.samples,
                FieldWidths(ShapeOf(cfg.cmp_mode)), "BE")

C15_RawCopy ==
    (/\ pc = "done"
     /\ last = "encode_data"
     /\ ret = 0
     /\ raw_mode_is_used(cfg.cmp_mode))
        => /\ Len(RawBytes) = cfg.samples * size_of_a_sample(cfg.cmp_mode)
           /\ Len(RawBytes) <= Len(mem[cfg.icu_output_buf])
           /\ mem[cfg.icu_output_buf]
                  = memcpy(orig[cfg.icu_output_buf], RawBytes)
           /\ info_given => info.cmp_size = Len(RawBytes) * 8
           /\ mem[cfg.input_buf] = orig[cfg.input_buf]

\* ------------------------------------------------------------------------
\* C16 -- In every structured shape the exposure flags are encoded with the
\* fixed parameter GOLOMB_PAR_EXPOSURE_FLAGS: the bits emitted for the flags
\* of the first sample are those of the fixed parameter (as a plain code
\* word or through encode_value), whatever the configured golomb_par.
\* ------------------------------------------------------------------------

\* the configuration with the fixed parameter and room for any emission
FlagsCfg ==
    [cfg EXCEPT !.golomb_par = GOLOMB_PAR_EXPOSURE_FLAGS, !.buffer_length = 6]

\* the value of the flags of the first sample that went into the encoder
FlagsValue == mem[cfg.input_buf][1][1]

StructuredShapes == {"S_FX", "S_FX_EFX", "S_FX_NCOB", "S_FX_EFX_NCOB_ECOB"}

\* the stream starts with the bits b
StreamStartsWith(b) ==
    /\ Len(b) <= 8 * Len(mem[cfg.icu_output_buf])
    /\ WordBits(mem[cfg.icu_output_buf], Len(b), "BE") = b

C16_FlagsFixedParameter ==
    (/\ pc = "done"
     /\ last = "encode_data"
     /\ ret = 0
     /\ cfg.samples > 0
     /\ ~raw_mode_is_used(cfg.cmp_mode)
     /\ ShapeOf(cfg.cmp_mode) \in StructuredShapes)
        => \/ StreamStartsWith(
                  Emission(encode_normal(FlagsValue, FlagsCfg,
                                         encoder_struct(FlagsCfg),
                                         [i \in 1..12 |-> 0], "BE"), "BE").bits)
           \/ StreamStartsWith(
                  Emission(encode_value(FlagsValue, 8, FlagsCfg,
                                        encoder_struct(FlagsCfg),
                                        [i \in 1..12 |-> 0], "BE"), "BE").bits)

\* ------------------------------------------------------------------------
\* C17 -- Endianness: a call that returns 0 leaves the same bytes in the
\* output buffer on a little-endian and on a big-endian host, for the same
\* configuration and buffers; the call on the other host returns 0 as well.
\* (A big-endian host stores every word it writes most significant byte
\* first and swaps nothing.)
\* ------------------------------------------------------------------------
OtherHost == IF host = "LE" THEN "BE" ELSE "LE"

\* what the same call does on the host of the other byte order
OnOtherHost ==
    icu_compress_data(cfg, StaleInfo, info_given, orig, OtherHost, ub)

SameOutput(other) ==
    /\ ~other.abort
    /\ other.ret = 0
    /\ other.mem[cfg.icu_output_buf] = mem[cfg.icu_output_buf]

C17_SameBytesOnBothHosts ==
    (pc = "done" /\ ret = 0 /\ last = "encode_data") => SameOutput(OnOtherHost)

\* ------------------------------------------------------------------------
\* C18 -- info is optional: a call with info == NULL never goes through the
\* pointer, and it returns what the same call returns with info given.
\* ------------------------------------------------------------------------

\* what the same call does when info is given
WithInfo == icu_compress_data(cfg, StaleInfo, TRUE, orig, host, ub)

SameStatus(other) == other.abort \/ (pc = "done" => ret = other.ret)

C18_InfoOptional ==
    ~info_given => (/\ pc = "abort" => last # "encode_data"
                    /\ SameStatus(WithInfo))

\* ------------------------------------------------------------------------
\* C19 -- COMPRESS_CHUNK_BOUND(chunk_size, num_col) is
\* NON_IMAGETTE_HEADER_SIZE + num_col * CMP_COLLECTION_FILD_SIZE + chunk_size
\* rounded up to a multiple of 4 when num_col > 0, chunk_size >=
\* COLLECTION_HDR_SIZE * num_col and that number is at most
\* CMP_ENTITY_MAX_SIZE, and 0 otherwise; a result other than 0 is a multiple
\* of 4 and at least chunk_size; no operation the macro evaluates leaves the
\* 32 bits, whatever the two 32-bit arguments are.  The numbers of the
\* statement are computed in two 16-bit halves whose upper half is not cut.
\* ------------------------------------------------------------------------

\* the number hi * 2^16 + lo with lo brought below 2^16
Wide(hi, lo) == <<hi + (lo \div 65536), lo % 65536>>

WideLeq(a, b) == a[1] < b[1] \/ (a[1] = b[1] /\ a[2] <= b[2])

\* COLLECTION_HDR_SIZE * num_col as a number
ExactHeaders(num_col) ==
    Wide(COLLECTION_HDR_SIZE * Hi16(num_col),
         COLLECTION_HDR_SIZE * Lo16(num_col))

\* the sum of the statement plus 3, and its multiple of 4
ExactSumPlus3(chunk_size, num_col) ==
    Wide(CMP_COLLECTION_FILD_SIZE * Hi16(num_col) + Hi16(chunk_size),
         NON_IMAGETTE_HEADER_SIZE + CMP_COLLECTION_FILD_SIZE * Lo16(num_col)
         + Lo16(chunk_size) + 3)

RoundDown4(w) == <<w[1], (w[2] \div 4) * 4>>

ExactBound(chunk_size, num_col) ==
    RoundDown4(ExactSumPlus3(chunk_size, num_col))

ExactBoundExists(chunk_size, num_col) ==
    /\ num_col # ZERO32
    /\ WideLeq(ExactHeaders(num_col), <<Hi16(chunk_size), Lo16(chunk_size)>>)
    /\ WideLeq(ExactBound(chunk_size, num_col),
               <<CMP_ENTITY_MAX_SIZE \div 65536, CMP_ENTITY_MAX_SIZE % 65536>>)

C19_ChunkBound ==
    pc = "bounded" =>
        /\ ~res.wraps
        /\ IF ExactBoundExists(args.chunk_size, args.num_col)
           THEN <<Hi16(res.bound), Lo16(res.bound)>>
                    = ExactBound(args.chunk_size, args.num_col)
           ELSE res.bound = ZERO32
        /\ res.bound # ZERO32
              => /\ res.bound \cap {0, 1} = {}
                 /\ LE32(args.chunk_size, res.bound)

\* COMPRESS_CHUNK_BOUND(1000, 3) has been computed and is 64 + 6 + 1000
\* rounded up, 1072
C19_Witness ==
    /\ pc = "bounded"
    /\ args.chunk_size = FromNat(1000)
    /\ args.num_col = FromNat(3)
    /\ res.bound = FromNat(1072)

\* ------------------------------------------------------------------------
\* C21 -- No write of the encoder goes beyond the capacity the caller
\* declared: whatever buffer_length is, odd values included, the bytes of
\* the output buffer behind its first buffer_length 16-bit words are the
\* bytes the caller left there, after every emission and after the padding.
\* ------------------------------------------------------------------------
C21_WritesWithinCapacity ==
    \A k \in 1..Len(mem[cfg.icu_output_buf]) :
        k > 2 * cfg.buffer_length
            => mem[cfg.icu_output_buf][k] = orig[cfg.icu_output_buf][k]

\* ------------------------------------------------------------------------
\* C22 -- Escape policy: with the zero escape mechanism encode_value treats
\* a value as an outlier exactly when it is 0 or not below spill, and then
\* emits the code word of 0 directly followed by the value in bit_len
\* unencoded bits (8, 16 or 32, the width of the field), the stream growing
\* by both lengths; every other value gets its own code word.  With the
\* multi escape mechanism the values below spill, 0 among them, get their
\* code word and the values from spill on the escape symbol and payload.
\* ------------------------------------------------------------------------

\* the lowest n bits of val, most significant first
BitsOf(val, n) == [i \in 1..n |-> IF (n - i) \in val THEN 1 ELSE 0]

\* the bits of the code word w
CodeWordBitsOf(w) == BitsOf(w.cw, w.len)

\* the code word of the value u under the parameters of c
CodeWordBits(u, c) ==
    CodeWordBitsOf(CallEncoder(select_encoder(c.golomb_par), ToNat(u),
                               c.golomb_par, ilog_2(c.golomb_par)))

\* the bits from + 1 .. to of the stream in bytes
StreamPart(bytes, from, to, h) ==
    [i \in 1..(to - from) |-> WordBit(bytes, from + i - 1, h)]

\* what the zero escape mechanism is to emit for the value u
ZeroEscapeBits(u, bit_len) ==
    IF u = ZERO32 \/ ~LT32(u, FromNat(cfg.spill))
    THEN CodeWordBits(ZERO32, cfg) \o BitsOf(u, bit_len)
    ELSE CodeWordBits(u, cfg)

\* the multi escape mechanism takes u for an outlier exactly from spill on
MultiEscapeChoice(u) ==
    IF LT32(u, FromNat(cfg.spill))
    THEN res = StreamRes(encode_normal(u, cfg, EncoderAt(args.at),
                                       mem[cfg.icu_output_buf], host))
    ELSE res = StreamRes(encode_outlier_multi(u, cfg, EncoderAt(args.at),
                                              mem[cfg.icu_output_buf], host))

C22_EscapePolicy ==
    pc = "value" /\ res.err = 0
        => IF zero_escape_mech_is_used(cfg.cmp_mode)
           THEN /\ res.cmp_size
                      = args.at + Len(ZeroEscapeBits(args.v1, args.bit_len))
                /\ StreamPart(res.out, args.at, res.cmp_size, host)
                      = ZeroEscapeBits(args.v1, args.bit_len)
           ELSE MultiEscapeChoice(args.v1)

\* ------------------------------------------------------------------------
\* Code words as the specification words them, bit by bit
\* ------------------------------------------------------------------------

IsPowerOfTwo(m) == \E k \in 0..16 : m = 2^k

Unary(q) == [i \in 1..q |-> 1]

\* unary(q) 0 bin_log2m(r)
RiceWord(u, m, log2_m) ==
    Unary(u \div 2^log2_m) \o <<0>> \o BitsOf(FromNat(u % m), log2_m)

\* members of group 0 of the Golomb code
GolombCutoff(m, log2_m) == 2^(log2_m + 1) - m

GolombGroup(u, m, log2_m) == (u - GolombCutoff(m, log2_m)) \div m

GolombWord(u, m, log2_m) ==
    IF u < GolombCutoff(m, log2_m) THEN BitsOf(FromNat(u), log2_m + 1)
    ELSE Unary(GolombGroup(u, m, log2_m))
         \o BitsOf(FromNat(2 * GolombCutoff(m, log2_m)
                           + (u - GolombCutoff(m, log2_m))
                           - GolombGroup(u, m, log2_m) * m),
                   log2_m + 2)

\* the code word of u under the Golomb parameter m
CodeWordOf(u, m) ==
    IF IsPowerOfTwo(m) THEN RiceWord(u, m, ilog_2(m))
    ELSE GolombWord(u, m, ilog_2(m))

\* ------------------------------------------------------------------------
\* C23 -- Multi escape outlier: for a value u >= spill, with d = u - spill
\* and offset the row of d in the table of cal_multi_offset (0 for d <= 3,
\* 1 for d <= 15, ..., 15 for d > 0x3FFFFFFF), the encoder emits the code
\* word of spill + offset followed by d in (offset + 1) * 2 unencoded bits,
\* and d is below 4^(offset + 1), so that no bit of d is lost.
\* ------------------------------------------------------------------------

\* the difference to spill of the outlier that was encoded
MultiD == SUB32(args.v1, FromNat(cfg.spill))

\* the row of d in the table: the smallest offset with d < 4^(offset + 1),
\* and 15 beyond
TableRow(d) == CHOOSE k \in 0..15 :
                 /\ k = 15 \/ \A b \in d : b < 2 * (k + 1)
                 /\ k = 0 \/ \E b \in d : b >= 2 * k

\* the emission of an outlier whose escape symbol is spill + offset
MultiEmission(d, offset) ==
    CodeWordOf(cfg.spill + offset, cfg.golomb_par)
        \o BitsOf(d, (offset + 1) * 2)

C23_MultiEscape ==
    (/\ pc = "value"
     /\ multi_escape_mech_is_used(cfg.cmp_mode)
     /\ ~LT32(args.v1, FromNat(cfg.spill))
     /\ res.err = 0)
        => /\ cal_multi_offset(MultiD) = TableRow(MultiD)
           /\ \A b \in MultiD : b < 2 * (TableRow(MultiD) + 1)
           /\ res.cmp_size
                  = args.at + Len(MultiEmission(MultiD, TableRow(MultiD)))
           /\ StreamPart(res.out, args.at, res.cmp_size, host)
                  = MultiEmission(MultiD, TableRow(MultiD))

\* ------------------------------------------------------------------------
\* C24 -- Difference pre-processing: after diff_16, diff_32 or a structured
\* diff_* routine the first sample holds its rounded value and every later
\* sample holds, field by field, the rounded value minus the rounded value
\* of the sample before it as it was before the call, modulo 2^w of the
\* width of the field; the element behind the last sample is left alone.
\* ------------------------------------------------------------------------

\* field f of sample i of the input as it was before the call, rounded
RoundedInput(i, f) ==
    Trunc(SHR32(orig[cfg.input_buf][i][f], cfg.round),
          FieldWidths(ShapeOf(cfg.cmp_mode))[f])

Differenced(i, f) ==
    IF i = 1 THEN RoundedInput(i, f)
    ELSE Trunc(SUB32(RoundedInput(i, f), RoundedInput(i - 1, f)),
               FieldWidths(ShapeOf(cfg.cmp_mode))[f])

C24_Differences ==
    (pc = "map" /\ diff_mode_is_used(cfg.cmp_mode)) =>
        /\ \A i \in 1..cfg.samples :
             \A f \in 1..Len(FieldWidths(ShapeOf(cfg.cmp_mode))) :
                mem[cfg.input_buf][i][f] = Differenced(i, f)
        /\ mem[cfg.input_buf][cfg.samples + 1]
               = orig[cfg.input_buf][cfg.samples + 1]

\* three 16-bit samples 604, 600, 32768 became 604, 65532, 32168
C24_Witness ==
    /\ pc = "map"
    /\ cfg.cmp_mode = MODE_DIFF_ZERO
    /\ cfg.round = 0
    /\ cfg.samples = 3
    /\ orig[cfg.input_buf][1] = <<FromNat(604)>>
    /\ orig[cfg.input_buf][2] = <<FromNat(600)>>
    /\ orig[cfg.input_buf][3] = <<FromNat(32768)>>
    /\ mem[cfg.input_buf][2] = <<FromNat(65532)>>
    /\ mem[cfg.input_buf][3] = <<FromNat(32168)>>

\* ------------------------------------------------------------------------
\* C25 -- Mapper bias: in a mode with the zero escape mechanism map_to_pos
\* leaves every data field of every sample at its mapped value plus 1,
\* modulo 2^w of the field, and the exposure flags of a structured sample at
\* their mapped value; in a mode with the multi escape mechanism every field
\* is left at its mapped value, so that a residual of 0 becomes 0.
\* ------------------------------------------------------------------------

\* field f is the exposure flags field of the shape of the mode
IsFlagsField(f) ==
    f = 1 /\ ShapeOf(cfg.cmp_mode) \in StructuredShapes

\* what map_to_pos has to leave in field f of a sample whose residual is v
Biased(v, f) ==
    IF zero_escape_mech_is_used(cfg.cmp_mode) /\ ~IsFlagsField(f)
    THEN Trunc(ADD32(map_to_pos_alg(v, FieldWidths(ShapeOf(cfg.cmp_mode))[f]),
                     ONE32),
               FieldWidths(ShapeOf(cfg.cmp_mode))[f])
    ELSE map_to_pos_alg(v, FieldWidths(ShapeOf(cfg.cmp_mode))[f])

\* pre holds the residuals pre_process left in the data buffer
MapperBiasOn(pre) ==
    \A i \in 1..cfg.samples :
      \A f \in 1..Len(FieldWidths(ShapeOf(cfg.cmp_mode))) :
        /\ mem[cfg.input_buf][i][f] = Biased(pre[i][f], f)
        /\ (multi_escape_mech_is_used(cfg.cmp_mode) /\ pre[i][f] = ZERO32)
               => mem[cfg.input_buf][i][f] = ZERO32

C25_MapperBias ==
    (/\ pc = "enc"
     /\ last = "map_to_pos"
     /\ cfg.samples > 0
     /\ ~raw_mode_is_used(cfg.cmp_mode))
        => MapperBiasOn(pre_process(cfg, orig).mem[cfg.input_buf])

\* a sample of flags 1, FX 3 and EFX -1 was mapped to 2, 6 + 1 and 1 + 1
C25_Witness ==
    /\ pc = "enc"
    /\ last = "map_to_pos"
    /\ cfg.cmp_mode = MODE_DIFF_ZERO_S_FX_EFX
    /\ cfg.round = 0
    /\ cfg.samples = 1
    /\ orig[cfg.input_buf][1] = <<FromNat(1), FromNat(3), U32_MAX>>
    /\ mem[cfg.input_buf][1] = <<FromNat(2), FromNat(7), FromNat(2)>>

\* ------------------------------------------------------------------------
\* C26 -- Emission order: the bit stream of a successful compression is the
\* emission of sample 0, then of sample 1, and so on, one directly behind
\* the other, and inside a structured sample the emissions of its fields in
\* the order exp_flags, fx, ncob_x, ncob_y, efx, ecob_x, ecob_y, as far as
\* the shape has them; in encode_S_FX, whose two encoder states share the
\* cursor, the cursor is the length of all that was emitted, so that
\* info.cmp_size is the length of the concatenation.  The emission of a
\* field is the code word of its mapped value, or the escape symbol and
\* the unencoded bits.
\* ------------------------------------------------------------------------

\* the emission of the mapped value v of a field of w bits
ValueEmission(v, w) ==
    IF zero_escape_mech_is_used(cfg.cmp_mode)
    THEN IF v = ZERO32 \/ ~LT32(v, FromNat(cfg.spill))
         THEN CodeWordOf(0, cfg.golomb_par) \o BitsOf(v, w)
         ELSE CodeWordOf(ToNat(v), cfg.golomb_par)
    ELSE IF LT32(v, FromNat(cfg.spill))
         THEN CodeWordOf(ToNat(v), cfg.golomb_par)
         ELSE MultiEmission(SUB32(v, FromNat(cfg.spill)),
                            TableRow(SUB32(v, FromNat(cfg.spill))))

\* the emission of field f of a sample; the exposure flags of encode_S_FX
\* have the code word of GOLOMB_PAR_EXPOSURE_FLAGS and no escape mechanism
FieldEmission(v, f) ==
    IF ShapeOf(cfg.cmp_mode) = "S_FX" /\ f = 1
    THEN CodeWordOf(ToNat(v), GOLOMB_PAR_EXPOSURE_FLAGS)
    ELSE ValueEmission(v, FieldWidths(ShapeOf(cfg.cmp_mode))[f])

RECURSIVE EmissionsOf(_, _)
\* the emissions of the first k fields of the data buffer, counted over all
\* samples in ascending order, one behind the other
EmissionsOf(data, k) ==
    IF k = 0 THEN << >>
    ELSE EmissionsOf(data, k - 1)
         \o FieldEmission(
                data[((k - 1) \div Len(FieldWidths(ShapeOf(cfg.cmp_mode)))) + 1]
                    [((k - 1) % Len(FieldWidths(ShapeOf(cfg.cmp_mode)))) + 1],
                ((k - 1) % Len(FieldWidths(ShapeOf(cfg.cmp_mode)))) + 1)

\* the output buffer holds the bits b and info their number
StreamIs(b) ==
    /\ StreamStartsWith(b)
    /\ info_given => info.cmp_size = Len(b)

C26_EmissionOrder ==
    (/\ pc = "done"
     /\ last = "encode_data"
     /\ ret = 0
     /\ cfg.samples > 0
     /\ ~raw_mode_is_used(cfg.cmp_mode))
        => StreamIs(EmissionsOf(mem[cfg.input_buf],
                                cfg.samples
                                * Len(FieldWidths(ShapeOf(cfg.cmp_mode)))))

\* ------------------------------------------------------------------------
\* C27 -- Tail padding: after a successful compression in a mode that is
\* not raw, with a stream that is not empty, every bit of the output from
\* info.cmp_size up to the next 32-bit boundary is 0; info.cmp_size is the
\* cursor of the encoder, the padding not counted; when the cursor is a
\* multiple of 32 nothing is written behind the stream; and a small-buffer
\* error of encode_data always comes from the encoder, never from the
\* padding.
\* ------------------------------------------------------------------------

\* the cursor of the encoder when the encode routine of the mode returned
EncoderCursor ==
    encode_dispatch([mem EXCEPT ![cfg.icu_output_buf]
                                    = orig[cfg.icu_output_buf]],
                    cfg, encoder_struct(cfg), orig[cfg.icu_output_buf],
                    host).enc.cmp_size

\* the first multiple of 32 that is not below n
NextWordBoundary(n) == 32 * ((n + 31) \div 32)

PaddedStream ==
    /\ info.cmp_size = EncoderCursor
    /\ \A i \in info.cmp_size..(NextWordBoundary(info.cmp_size) - 1) :
           WordBit(mem[cfg.icu_output_buf], i, "BE") = 0
    /\ info.cmp_size % 32 = 0
           => \A k \in 1..Len(mem[cfg.icu_output_buf]) :
                  8 * (k - 1) >= info.cmp_size
                      => mem[cfg.icu_output_buf][k]
                             = orig[cfg.icu_output_buf][k]

C27_TailPadding ==
    /\ (/\ pc = "done"
        /\ last = "encode_data"
        /\ ret = 0
        /\ ~raw_mode_is_used(cfg.cmp_mode)
        /\ info_given
        /\ info.cmp_size > 0)
           => PaddedStream
    /\ (pc = "done" /\ last = "encode_data" /\ ret = -2) => enc_err = -2

\* a stream that ends inside a word was padded: the bits behind it, which
\* were not all 0 before the call, are
C27_Witness ==
    /\ pc = "done"
    /\ last = "encode_data"
    /\ ret = 0
    /\ ~raw_mode_is_used(cfg.cmp_mode)
    /\ info_given
    /\ info.cmp_size % 32 \in 1..24
    /\ info.cmp_size = EncoderCursor
    /\ \E i \in info.cmp_size..(NextWordBoundary(info.cmp_size) - 1) :
           WordBit(orig[cfg.icu_output_buf], i, "BE") = 1
    /\ \A i \in info.cmp_size..(NextWordBoundary(info.cmp_size) - 1) :
           WordBit(mem[cfg.icu_output_buf], i, "BE") = 0

\* ------------------------------------------------------------------------
\* C28 -- Rice and Golomb code words: for m a power of two the code word of
\* Rice_encoder for u is q ones, a 0 and r in log2_m bits, with
\* q = u >> log2_m and r = u & (m - 1), and its length q + 1 + log2_m;
\* Golomb_encoder gives the same code word and the same length for such m;
\* for every other m, with c the cutoff, u < c is coded as u in log2_m + 1
\* bits and u >= c belongs to group g = (u - c) / m and has a code word of
\* g + log2_m + 2 bits, g ones followed by 2c + (u - c) - g * m in
\* log2_m + 2 bits.  (Code words are compared where they have at most 32
\* bits, lengths where the shift by the quotient is defined.)
\* ------------------------------------------------------------------------

RiceAsWorded(u, m, log2_m) ==
    /\ ~res.Rice.ub
           => res.Rice.len = (u \div 2^log2_m) + 1 + log2_m
    /\ res.Rice.len <= 32
           => CodeWordBitsOf(res.Rice) = RiceWord(u, m, log2_m)
    /\ ~res.Rice.ub => res.Golomb.len = res.Rice.len
    /\ res.Rice.len <= 32
           => CodeWordBitsOf(res.Golomb) = CodeWordBitsOf(res.Rice)

GolombAsWorded(u, m, log2_m) ==
    /\ u < GolombCutoff(m, log2_m) => res.Golomb.len = log2_m + 1
    /\ (u >= GolombCutoff(m, log2_m) /\ ~res.Golomb.ub)
           => res.Golomb.len = GolombGroup(u, m, log2_m) + log2_m + 2
    /\ res.Golomb.len <= 32
           => CodeWordBitsOf(res.Golomb) = GolombWord(u, m, log2_m)

C28_CodeWords ==
    pc = "worded"
        => IF IsPowerOfTwo(args.m)
           THEN RiceAsWorded(args.value, args.m, args.log2_m)
           ELSE GolombAsWorded(args.value, args.m, args.log2_m)

\* 13 under m = 4: three ones, the 0 and 01, from both routines
C28_Witness ==
    /\ pc = "worded"
    /\ args.m = 4
    /\ args.value = 13
    /\ res.Rice.len = 6
    /\ CodeWordBitsOf(res.Rice) = <<1, 1, 1, 0, 0, 1>>
    /\ res.Golomb = res.Rice

\* ------------------------------------------------------------------------
\* C29 -- When encode_normal returns 0 the whole code word of the value
\* stands in the stream from the previous cursor on and the cursor has
\* advanced by the length of the code word; this includes the code words
\* that put_n_bits32 refuses for their length (0 or more than 32 bits), as
\* the exposure flags in encode_S_FX may have: they are not dropped with a
\* status of success.
\* ------------------------------------------------------------------------

\* the code word encode_normal asked its encoder for
NormalCodeWord ==
    IF pc = "flags"
    THEN CallEncoder(select_encoder(cfg.golomb_par), ToNat(args.v1),
                     GOLOMB_PAR_EXPOSURE_FLAGS,
                     ilog_2(GOLOMB_PAR_EXPOSURE_FLAGS))
    ELSE CallEncoder(select_encoder(cfg.golomb_par), ToNat(args.v1),
                     cfg.golomb_par, ilog_2(cfg.golomb_par))

CodeWordWritten(w) ==
    /\ res.cmp_size = args.at + w.len
    /\ w.len <= 32
    /\ StreamPart(res.out, args.at, res.cmp_size, host) = CodeWordBitsOf(w)

C29_NormalWritesCodeWord ==
    (pc \in {"normal", "flags"} /\ res.err = 0)
        => CodeWordWritten(NormalCodeWord)

============================================================================
